---- MODULE Spec2Model ----
(***************************************************************************)
(* Portal raycast, placement and transfer of the portal/ mini-game         *)
(* (src/portal/*.py), as a state machine.                                  *)
(*                                                                         *)
(* Conventions.  Coordinates are integers (pixels); pygame.Rect holds      *)
(* integers and the model keeps every Vector2 on integer values that the   *)
(* float code computes exactly.  Velocities are integers in units of       *)
(* 1/VelScale px/s, so that the 1.05 boost (21/20) of a whole px/s value    *)
(* stays exact twice in a row.  Times are integer milliseconds.            *)
(***************************************************************************)
EXTENDS Integers, Sequences, FiniteSets, TLC

VARIABLES
    game_state,     \* Game.game_state
    current_level,  \* Game.current_level
    phase,          \* position of main()'s loop: "events" or "update"
    obstacles,      \* Level.obstacles, in list order
    player,         \* Player.pos, Player.vel
    blue_portal,    \* Player.blue_portal
    orange_portal,  \* Player.orange_portal
    cube,           \* the PhysicsObject of the level: pos, vel, size
    enemy,          \* an Enemy: pos, vel, state, confusion_timer, last_portal_time
    ticks,          \* pygame.time.get_ticks(), milliseconds
    last            \* the last operation performed, with its inputs and results

vars == <<game_state, current_level, phase, obstacles, player, blue_portal, orange_portal,
          cube, enemy, ticks, last>>

-----------------------------------------------------------------------------
(* Values *)

None == [none |-> TRUE]

Vec(x, y) == [x |-> x, y |-> y]

Rect(x, y, w, h) == [x |-> x, y |-> y, w |-> w, h |-> h]

Abs(n) == IF n < 0 THEN -n ELSE n

Min(S) == CHOOSE m \in S : \A n \in S : m <= n

\* min() of four numbers (player.py:139)
Min4(a, b, c, d) == Min({a, b, c, d})

\* pygame.Rect.collidepoint: left and top edges inside, right and bottom outside
collidepoint(r, p) ==
    /\ p.x >= r.x /\ p.x < r.x + r.w
    /\ p.y >= r.y /\ p.y < r.y + r.h

\* pygame.Rect.colliderect: strict overlap, touching edges do not collide
colliderect(a, b) ==
    /\ a.x < b.x + b.w /\ b.x < a.x + a.w
    /\ a.y < b.y + b.h /\ b.y < a.y + a.h

\* pygame.Rect.center
center(r) == Vec(r.x + r.w \div 2, r.y + r.h \div 2)

\* truth value of a pygame.Vector2 (false for the zero vector) or of None
Truthy(v) == v # None /\ v # Vec(0, 0)

Obstacle(rect, allows_portals) == [rect |-> rect, allows_portals |-> allows_portals]

-----------------------------------------------------------------------------
(* Portal (portal.py) *)

PortalShortSide == 20
PortalLongSide == 80
AngleVertical == 90
AngleHorizontal == 0

Portal_init(pos, orientation, color) ==
    LET width  == IF orientation = "vertical" THEN PortalShortSide ELSE PortalLongSide
        height == IF orientation = "vertical" THEN PortalLongSide ELSE PortalShortSide
    IN  [pos         |-> pos,
         orientation |-> orientation,
         color       |-> color,
         width       |-> width,
         height      |-> height,
         rect        |-> Rect(pos.x, pos.y, width, height),
         angle       |-> IF orientation = "vertical" THEN AngleVertical
                                                     ELSE AngleHorizontal]

-----------------------------------------------------------------------------
(* Surface raycaster (player.py) *)

step_size == 5
max_distance == 1000

\* range(int(max_distance / step_size))
NumSteps == max_distance \div step_size

\* Vector2.length() where it is a whole number; the square root by search
length(d) ==
    LET n == d.x * d.x + d.y * d.y
    IN  CHOOSE r \in 0..(Abs(d.x) + Abs(d.y)) : r * r <= n /\ n < (r + 1) * (r + 1)

\* the directions whose normalisation times step_size is a whole vector
ExactDirection(d) ==
    LET len == length(d)
    IN  /\ len * len = d.x * d.x + d.y * d.y
        /\ len > 0 => /\ (d.x * step_size) % len = 0
                      /\ (d.y * step_size) % len = 0

\* direction.normalize_ip() followed by direction * step_size
direction_step(d) ==
    LET len == length(d)
    IN  Vec((d.x * step_size) \div len, (d.y * step_size) \div len)

NoHit == [pos |-> None, normal |-> None, obstacle |-> None]

calculate_wall_normal_WrongOrder(hit_pos, obstacle) ==
    LET rect        == obstacle.rect
        dist_left   == Abs(hit_pos.x - rect.x)
        dist_right  == Abs(hit_pos.x - (rect.x + rect.w))
        dist_top    == Abs(hit_pos.y - rect.y)
        dist_bottom == Abs(hit_pos.y - (rect.y + rect.h))
        min_dist    == Min4(dist_left, dist_right, dist_top, dist_bottom)
    IN  IF min_dist = dist_top THEN <<0, -1>>
        ELSE IF min_dist = dist_bottom THEN <<0, 1>>
        ELSE IF min_dist = dist_left THEN <<-1, 0>>
        ELSE <<1, 0>>

calculate_wall_normal(hit_pos, obstacle) ==
    LET rect        == obstacle.rect
        dist_left   == Abs(hit_pos.x - rect.x)
        dist_right  == Abs(hit_pos.x - (rect.x + rect.w))
        dist_top    == Abs(hit_pos.y - rect.y)
        dist_bottom == Abs(hit_pos.y - (rect.y + rect.h))
        min_dist    == Min4(dist_left, dist_right, dist_top, dist_bottom)
    IN  IF min_dist = dist_left THEN <<-1, 0>>
        ELSE IF min_dist = dist_right THEN <<1, 0>>
        ELSE IF min_dist = dist_top THEN <<0, -1>>
        ELSE <<0, 1>>

\* the probe point after k steps of the march
probe(start_pos, stepv, k) == Vec(start_pos.x + k * stepv.x, start_pos.y + k * stepv.y)

\* the obstacles, by list index, that contain the probe point of step k
Inside(start_pos, stepv, obs, k) ==
    {i \in 1..Len(obs) : collidepoint(obs[i].rect, probe(start_pos, stepv, k))}

\* the first step in lo..hi whose probe point is inside an obstacle, 0 if none
\* (the loop's order of visit, found by halving the range)
RECURSIVE first_hit_step(_, _, _, _, _)
first_hit_step(start_pos, stepv, obs, lo, hi) ==
    IF lo = hi
    THEN (IF Inside(start_pos, stepv, obs, lo) # {} THEN lo ELSE 0)
    ELSE
      LET mid   == (lo + hi) \div 2
          early == first_hit_step(start_pos, stepv, obs, lo, mid)
      IN  IF early # 0 THEN early
          ELSE first_hit_step(start_pos, stepv, obs, mid + 1, hi)

march_TestsOrigin(start_pos, stepv, obs) ==
    LET at_origin == Inside(start_pos, stepv, obs, 0)
        k == first_hit_step(start_pos, stepv, obs, 1, NumSteps)
    IN  IF at_origin # {}
        THEN [pos      |-> start_pos,
              normal   |-> calculate_wall_normal(start_pos, obs[Min(at_origin)]),
              obstacle |-> obs[Min(at_origin)]]
        ELSE IF k = 0 THEN NoHit
        ELSE
          LET current_pos == probe(start_pos, stepv, k)
              obstacle    == obs[Min(Inside(start_pos, stepv, obs, k))]
          IN  [pos      |-> current_pos,
               normal   |-> calculate_wall_normal(current_pos, obstacle),
               obstacle |-> obstacle]

march_EligibleOnly(start_pos, stepv, obs) ==
    LET eligible == SelectSeq(obs, LAMBDA o : o.allows_portals)
        k == first_hit_step(start_pos, stepv, eligible, 1, NumSteps)
    IN  IF k = 0 THEN NoHit
        ELSE
          LET current_pos == probe(start_pos, stepv, k)
              obstacle    == eligible[Min(Inside(start_pos, stepv, eligible, k))]
          IN  [pos      |-> current_pos,
               normal   |-> calculate_wall_normal(current_pos, obstacle),
               obstacle |-> obstacle]

march_StepBehind(start_pos, stepv, obs) ==
    LET k == first_hit_step(start_pos, stepv, obs, 1, NumSteps)
    IN  IF k = 0 THEN NoHit
        ELSE
          LET current_pos == probe(start_pos, stepv, k - 1)
              obstacle    == obs[Min(Inside(start_pos, stepv, obs, k))]
          IN  [pos      |-> current_pos,
               normal   |-> calculate_wall_normal(current_pos, obstacle),
               obstacle |-> obstacle]

\* the loop over the steps: for each probe point the obstacles are tested in
\* list order and the first that contains it is the hit
march(start_pos, stepv, obs) ==
    LET k == first_hit_step(start_pos, stepv, obs, 1, NumSteps)
    IN  IF k = 0 THEN NoHit
        ELSE
          LET current_pos == probe(start_pos, stepv, k)
              obstacle    == obs[Min(Inside(start_pos, stepv, obs, k))]
          IN  [pos      |-> current_pos,
               normal   |-> calculate_wall_normal(current_pos, obstacle),
               obstacle |-> obstacle]

raycast_to_wall_StopsAtTarget(start_pos, end_pos, obs) ==
    LET direction == Vec(end_pos.x - start_pos.x, end_pos.y - start_pos.y)
        stepv == direction_step(direction)
        reach == Min({NumSteps, length(direction) \div step_size})
        k == first_hit_step(start_pos, stepv, obs, 1, reach)
    IN  IF length(direction) = 0 \/ k = 0 THEN NoHit
        ELSE
          LET current_pos == probe(start_pos, stepv, k)
              obstacle    == obs[Min(Inside(start_pos, stepv, obs, k))]
          IN  [pos      |-> current_pos,
               normal   |-> calculate_wall_normal(current_pos, obstacle),
               obstacle |-> obstacle]

raycast_to_wall_ZeroAimsRight(start_pos, end_pos, obs) ==
    LET direction == Vec(end_pos.x - start_pos.x, end_pos.y - start_pos.y)
    IN  IF length(direction) = 0 THEN march(start_pos, Vec(step_size, 0), obs)
        ELSE march(start_pos, direction_step(direction), obs)

raycast_to_wall(start_pos, end_pos, obs) ==
    LET direction == Vec(end_pos.x - start_pos.x, end_pos.y - start_pos.y)
    IN  IF length(direction) = 0 THEN NoHit
        ELSE march(start_pos, direction_step(direction), obs)

-----------------------------------------------------------------------------
(* Portal placement (player.py) *)

place_portal_FlushBySide(hit_pos, hit_normal, color) ==
    LET orientation == IF Abs(hit_normal[1]) > Abs(hit_normal[2])
                       THEN "vertical" ELSE "horizontal"
        portal == Portal_init(hit_pos, orientation, color)
        pos == IF orientation = "vertical"
               THEN Vec(IF hit_normal[1] < 0
                        THEN portal.pos.x - portal.width \div 2
                        ELSE portal.pos.x,
                        portal.pos.y - portal.height \div 2)
               ELSE Vec(portal.pos.x - portal.width \div 2,
                        IF hit_normal[2] < 0
                        THEN portal.pos.y - portal.height \div 2
                        ELSE portal.pos.y)
    IN  [portal EXCEPT !.pos = pos,
                       !.rect = Rect(pos.x, pos.y, portal.width, portal.height)]

place_portal_AlwaysVertical(hit_pos, hit_normal, color) ==
    LET portal == Portal_init(hit_pos, "vertical", color)
        pos == Vec(portal.pos.x - portal.width \div 2, portal.pos.y - portal.height \div 2)
    IN  [portal EXCEPT !.pos = pos,
                       !.rect = Rect(pos.x, pos.y, portal.width, portal.height)]

\* Portal(hit_pos, orientation, color) embedded in the wall (player.py:58-89)
place_portal(hit_pos, hit_normal, color) ==
    LET orientation == IF Abs(hit_normal[1]) > Abs(hit_normal[2])
                       THEN "vertical" ELSE "horizontal"
        portal == Portal_init(hit_pos, orientation, color)
        pos == IF orientation = "vertical"
               THEN Vec(IF hit_normal[1] < 0
                        THEN portal.pos.x - portal.width \div 2
                        ELSE portal.pos.x - portal.width \div 2,
                        portal.pos.y - portal.height \div 2)
               ELSE Vec(portal.pos.x - portal.width \div 2,
                        IF hit_normal[2] < 0
                        THEN portal.pos.y - portal.height \div 2
                        ELSE portal.pos.y - portal.height \div 2)
    IN  [portal EXCEPT !.pos = pos,
                       !.rect = Rect(pos.x, pos.y, portal.width, portal.height)]

create_portal_IgnoresFlag(self_pos, target_pos, color, obs) ==
    LET hit == raycast_to_wall(self_pos, target_pos, obs)
    IN  IF Truthy(hit.pos) /\ hit.obstacle # None
        THEN place_portal(hit.pos, hit.normal, color)
        ELSE None

create_portal(self_pos, target_pos, color, obs) ==
    LET hit == raycast_to_wall(self_pos, target_pos, obs)
    IN  IF Truthy(hit.pos) /\ hit.obstacle # None /\ hit.obstacle.allows_portals
        THEN place_portal(hit.pos, hit.normal, color)
        ELSE None

-----------------------------------------------------------------------------
(* Transfer engine: velocity transform shared by the three teleport methods *)

\* velocities are whole multiples of 1/VelScale px/s
VelScale == 20 * 20

PxPerSec(v) == v * VelScale

\* math.cos(math.radians(a)) and math.sin(math.radians(a)) at the angle
\* differences two portals can have (exact values; the float code is within
\* 1e-16 of them)
cos_deg(a) == IF a = 0 THEN 1 ELSE 0

sin_deg_Unsigned(a) == IF a = 0 THEN 0 ELSE 1

sin_deg(a) == IF a = 90 THEN 1 ELSE IF a = -90 THEN -1 ELSE 0

rotate_QuarterTurn(v, angle_diff) ==
    IF angle_diff = 0 THEN v ELSE Vec(-v.y, v.x)

\* old_vel rotated by angle_diff degrees
rotate(v, angle_diff) ==
    Vec(v.x * cos_deg(angle_diff) - v.y * sin_deg(angle_diff),
        v.x * sin_deg(angle_diff) + v.y * cos_deg(angle_diff))

\* self.vel *= 1.05
boost(v) == Vec((v.x * 105) \div 100, (v.y * 105) \div 100)

\* the values boost() keeps exact
Boostable(v) == (v.x * 105) % 100 = 0 /\ (v.y * 105) % 100 = 0

-----------------------------------------------------------------------------
(* Player (player.py) *)

Player_size == Vec(32, 64)

\* offset = 25 in teleport_through_portal
Player_offset == 25

Player_rect(p) == Rect(p.pos.x, p.pos.y, Player_size.x, Player_size.y)

Player_teleport_through_portal_NoBoost(p, entry_portal, exit_portal) ==
    LET dir == IF entry_portal.orientation = "vertical"
               THEN (IF p.vel.x > 0 THEN 1 ELSE -1)
               ELSE (IF p.vel.y > 0 THEN 1 ELSE -1)
        angle_diff == exit_portal.angle - entry_portal.angle
        pos == IF exit_portal.orientation = "vertical"
               THEN Vec(exit_portal.pos.x + Player_offset * dir,
                        exit_portal.pos.y + exit_portal.height \div 2
                          + p.pos.y - center(entry_portal.rect).y)
               ELSE Vec(exit_portal.pos.x + exit_portal.width \div 2
                          + p.pos.x - center(entry_portal.rect).x,
                        exit_portal.pos.y + Player_offset * dir)
    IN  [p EXCEPT !.pos = pos, !.vel = rotate(p.vel, angle_diff)]

Player_teleport_through_portal_ZeroPositive(p, entry_portal, exit_portal) ==
    LET player_center == Vec(p.pos.x + Player_size.x \div 2,
                             p.pos.y + Player_size.y \div 2)
        entry_center == center(entry_portal.rect)
        penetration_dir ==
            IF entry_portal.orientation = "vertical"
            THEN (IF p.vel.x >= 0 THEN 1 ELSE -1)
            ELSE (IF p.vel.y >= 0 THEN 1 ELSE -1)
        angle_diff == exit_portal.angle - entry_portal.angle
        pos == IF exit_portal.orientation = "vertical"
               THEN LET offset_y == player_center.y - entry_center.y
                    IN  Vec(exit_portal.pos.x + Player_offset * penetration_dir,
                            exit_portal.pos.y + exit_portal.height \div 2
                              - Player_size.y \div 2 + offset_y)
               ELSE LET offset_x == player_center.x - entry_center.x
                    IN  Vec(exit_portal.pos.x + exit_portal.width \div 2
                              - Player_size.x \div 2 + offset_x,
                            exit_portal.pos.y + Player_offset * penetration_dir)
    IN  [p EXCEPT !.pos = pos, !.vel = boost(rotate(p.vel, angle_diff))]

Player_teleport_through_portal(p, entry_portal, exit_portal) ==
    LET player_center == Vec(p.pos.x + Player_size.x \div 2,
                             p.pos.y + Player_size.y \div 2)
        entry_center == center(entry_portal.rect)
        penetration_dir ==
            IF entry_portal.orientation = "vertical"
            THEN (IF p.vel.x > 0 THEN 1 ELSE -1)
            ELSE (IF p.vel.y > 0 THEN 1 ELSE -1)
        angle_diff == exit_portal.angle - entry_portal.angle
        pos == IF exit_portal.orientation = "vertical"
               THEN LET offset_y == player_center.y - entry_center.y
                    IN  Vec(exit_portal.pos.x + Player_offset * penetration_dir,
                            exit_portal.pos.y + exit_portal.height \div 2
                              - Player_size.y \div 2 + offset_y)
               ELSE LET offset_x == player_center.x - entry_center.x
                    IN  Vec(exit_portal.pos.x + exit_portal.width \div 2
                              - Player_size.x \div 2 + offset_x,
                            exit_portal.pos.y + Player_offset * penetration_dir)
    IN  [p EXCEPT !.pos = pos, !.vel = boost(rotate(p.vel, angle_diff))]

\* which portal check_portal_transition enters: "blue", "orange" or "none"
Player_entry(p, blue, orange) ==
    IF blue # None /\ orange # None
    THEN IF colliderect(Player_rect(p), blue.rect) THEN "blue"
         ELSE IF colliderect(Player_rect(p), orange.rect) THEN "orange"
         ELSE "none"
    ELSE "none"

Player_check_portal_transition_BlueOnly(p, blue, orange) ==
    IF blue # None /\ orange # None /\ colliderect(Player_rect(p), blue.rect)
    THEN Player_teleport_through_portal(p, blue, orange)
    ELSE p

Player_check_portal_transition_SelfExit(p, blue, orange) ==
    IF blue # None /\ colliderect(Player_rect(p), blue.rect)
    THEN Player_teleport_through_portal(p, blue, IF orange = None THEN blue ELSE orange)
    ELSE IF blue # None /\ orange # None /\ colliderect(Player_rect(p), orange.rect)
    THEN Player_teleport_through_portal(p, orange, blue)
    ELSE p

Player_check_portal_transition(p, blue, orange) ==
    LET entry == Player_entry(p, blue, orange)
    IN  IF entry = "blue" THEN Player_teleport_through_portal(p, blue, orange)
        ELSE IF entry = "orange" THEN Player_teleport_through_portal(p, orange, blue)
        ELSE p

-----------------------------------------------------------------------------
(* PhysicsObject (objects.py) *)

\* self.rect follows self.pos (objects.py:62-63, 116-117)
PhysicsObject_rect(o) == Rect(o.pos.x, o.pos.y, o.size.x, o.size.y)

PhysicsObject_teleport_through_portal_NoBoost(o, entry_portal, exit_portal) ==
    LET entry_center == center(entry_portal.rect)
        obj_center == center(PhysicsObject_rect(o))
        penetration_dir ==
            IF entry_portal.orientation = "vertical"
            THEN (IF o.vel.x > 0 THEN 1 ELSE -1)
            ELSE (IF o.vel.y > 0 THEN 1 ELSE -1)
        angle_diff == exit_portal.angle - entry_portal.angle
        pos == IF exit_portal.orientation = "vertical"
               THEN LET offset_y == obj_center.y - entry_center.y
                    IN  Vec(exit_portal.pos.x + (o.size.x \div 2) * penetration_dir,
                            exit_portal.pos.y + exit_portal.height \div 2
                              - o.size.y \div 2 + offset_y)
               ELSE LET offset_x == obj_center.x - entry_center.x
                    IN  Vec(exit_portal.pos.x + exit_portal.width \div 2
                              - o.size.x \div 2 + offset_x,
                            exit_portal.pos.y + (o.size.y \div 2) * penetration_dir)
    IN  [o EXCEPT !.pos = pos, !.vel = rotate(o.vel, angle_diff)]

PhysicsObject_teleport_through_portal_PlayerClearance(o, entry_portal, exit_portal) ==
    LET entry_center == center(entry_portal.rect)
        obj_center == center(PhysicsObject_rect(o))
        penetration_dir ==
            IF entry_portal.orientation = "vertical"
            THEN (IF o.vel.x > 0 THEN 1 ELSE -1)
            ELSE (IF o.vel.y > 0 THEN 1 ELSE -1)
        angle_diff == exit_portal.angle - entry_portal.angle
        pos == IF exit_portal.orientation = "vertical"
               THEN LET offset_y == obj_center.y - entry_center.y
                    IN  Vec(exit_portal.pos.x + Player_offset * penetration_dir,
                            exit_portal.pos.y + exit_portal.height \div 2
                              - o.size.y \div 2 + offset_y)
               ELSE LET offset_x == obj_center.x - entry_center.x
                    IN  Vec(exit_portal.pos.x + exit_portal.width \div 2
                              - o.size.x \div 2 + offset_x,
                            exit_portal.pos.y + Player_offset * penetration_dir)
    IN  [o EXCEPT !.pos = pos, !.vel = boost(rotate(o.vel, angle_diff))]

PhysicsObject_teleport_through_portal(o, entry_portal, exit_portal) ==
    LET entry_center == center(entry_portal.rect)
        obj_center == center(PhysicsObject_rect(o))
        penetration_dir ==
            IF entry_portal.orientation = "vertical"
            THEN (IF o.vel.x > 0 THEN 1 ELSE -1)
            ELSE (IF o.vel.y > 0 THEN 1 ELSE -1)
        angle_diff == exit_portal.angle - entry_portal.angle
        pos == IF exit_portal.orientation = "vertical"
               THEN LET offset_y == obj_center.y - entry_center.y
                    IN  Vec(exit_portal.pos.x + (o.size.x \div 2) * penetration_dir,
                            exit_portal.pos.y + exit_portal.height \div 2
                              - o.size.y \div 2 + offset_y)
               ELSE LET offset_x == obj_center.x - entry_center.x
                    IN  Vec(exit_portal.pos.x + exit_portal.width \div 2
                              - o.size.x \div 2 + offset_x,
                            exit_portal.pos.y + (o.size.y \div 2) * penetration_dir)
    IN  [o EXCEPT !.pos = pos, !.vel = boost(rotate(o.vel, angle_diff))]

PhysicsObject_entry(o, blue, orange) ==
    IF blue # None /\ orange # None
    THEN IF colliderect(PhysicsObject_rect(o), blue.rect) THEN "blue"
         ELSE IF colliderect(PhysicsObject_rect(o), orange.rect) THEN "orange"
         ELSE "none"
    ELSE "none"

PhysicsObject_check_portal_transition_OrangeFirst(o, blue, orange) ==
    IF blue # None /\ orange # None
    THEN IF colliderect(PhysicsObject_rect(o), orange.rect)
         THEN PhysicsObject_teleport_through_portal(o, orange, blue)
         ELSE IF colliderect(PhysicsObject_rect(o), blue.rect)
         THEN PhysicsObject_teleport_through_portal(o, blue, orange)
         ELSE o
    ELSE o

PhysicsObject_check_portal_transition(o, blue, orange) ==
    LET entry == PhysicsObject_entry(o, blue, orange)
    IN  IF entry = "blue" THEN PhysicsObject_teleport_through_portal(o, blue, orange)
        ELSE IF entry = "orange" THEN PhysicsObject_teleport_through_portal(o, orange, blue)
        ELSE o

-----------------------------------------------------------------------------
(* Enemy (enemy.py) *)

Enemy_size == Vec(30, 30)

\* self.speed, px/s
Enemy_speed == 100

\* portal_cooldown = 1.0 s, in milliseconds
portal_cooldown == 1000

\* confusion_timer = 3.0 s, in milliseconds
confusion_time == 3000

detection_range == 300

\* patrol(): "close enough to target"
patrol_reach == 10

\* pygame.time.get_ticks() % 1000 < 50 draws a new random velocity
confusion_period == 1000
confusion_window == 50

\* self.rect.center = self.pos
Enemy_rect_centered(pos) ==
    Rect(pos.x - Enemy_size.x \div 2, pos.y - Enemy_size.y \div 2,
         Enemy_size.x, Enemy_size.y)

\* Enemy(pos, patrol_points)
Enemy_init(pos, patrol_points) ==
    [pos |-> pos, vel |-> Vec(0, 0),
     rect |-> Rect(pos.x, pos.y, Enemy_size.x, Enemy_size.y),
     patrol_points |-> patrol_points, current_target |-> 0,
     state |-> "patrol", confusion_timer |-> 0, last_portal_time |-> 0]

\* direction.normalize_ip() followed by direction * speed, in velocity units
toward(d, speed) ==
    LET len == length(d)
    IN  IF len > 0
        THEN Vec((d.x * PxPerSec(speed)) \div len, (d.y * PxPerSec(speed)) \div len)
        ELSE Vec(0, 0)

\* the directions toward() keeps exact
ExactToward(d, speed) ==
    LET len == length(d)
    IN  /\ len * len = d.x * d.x + d.y * d.y
        /\ len > 0 => /\ (d.x * PxPerSec(speed)) % len = 0
                      /\ (d.y * PxPerSec(speed)) % len = 0

\* dist_to_player < self.detection_range
Enemy_detects(e, player_pos) ==
    LET dx == player_pos.x - e.pos.x
        dy == player_pos.y - e.pos.y
    IN  dx * dx + dy * dy < detection_range * detection_range

\* can_see_player() returns True
can_see_player == TRUE

Enemy_state_machine_ChaseWins(e, dt, player_pos) ==
    IF Enemy_detects(e, player_pos) THEN [e EXCEPT !.state = "chase"]
    ELSE IF e.state = "confused"
    THEN LET timer == e.confusion_timer - dt
         IN  [e EXCEPT !.confusion_timer = timer,
                       !.state = IF timer <= 0 THEN "patrol" ELSE "confused"]
    ELSE [e EXCEPT !.state = "patrol"]

\* the "State machine" part of update()
Enemy_state_machine(e, dt, player_pos) ==
    IF e.state = "confused"
    THEN LET timer == e.confusion_timer - dt
         IN  [e EXCEPT !.confusion_timer = timer,
                       !.state = IF timer <= 0 THEN "patrol" ELSE "confused"]
    ELSE IF Enemy_detects(e, player_pos)
    THEN (IF can_see_player THEN [e EXCEPT !.state = "chase"]
                            ELSE [e EXCEPT !.state = "patrol"])
    ELSE [e EXCEPT !.state = "patrol"]

patrol(e) ==
    IF Len(e.patrol_points) = 0 THEN e
    ELSE
      LET target == e.patrol_points[e.current_target + 1]
          direction == Vec(target.x - e.pos.x, target.y - e.pos.y)
      IN  IF direction.x * direction.x + direction.y * direction.y
                < patrol_reach * patrol_reach
          THEN [e EXCEPT !.current_target =
                             (e.current_target + 1) % Len(e.patrol_points)]
          ELSE [e EXCEPT !.vel = toward(direction, Enemy_speed)]

chase_player(e, player_pos) ==
    [e EXCEPT !.vel = toward(Vec(player_pos.x - e.pos.x, player_pos.y - e.pos.y),
                             Enemy_speed)]

\* the "Act based on current state" part of update(); random_vel is the
\* velocity the confused branch draws
Enemy_act(e, player_pos, now, random_vel) ==
    IF e.state = "patrol" THEN patrol(e)
    ELSE IF e.state = "chase" THEN chase_player(e, player_pos)
    ELSE IF now % confusion_period < confusion_window
    THEN [e EXCEPT !.vel = random_vel]
    ELSE e

\* what Enemy_act needs to be exact
Enemy_act_exact(e, player_pos) ==
    /\ e.state = "chase" =>
          ExactToward(Vec(player_pos.x - e.pos.x, player_pos.y - e.pos.y), Enemy_speed)
    /\ (e.state = "patrol" /\ Len(e.patrol_points) > 0) =>
          LET target == e.patrol_points[e.current_target + 1]
          IN  ExactToward(Vec(target.x - e.pos.x, target.y - e.pos.y), Enemy_speed)

\* vel * dt in pixels, dt in milliseconds
displacement(v, dt) == (v * dt) \div (1000 * VelScale)

displacement_exact(v, dt) == (v * dt) % (1000 * VelScale) = 0

\* self.pos += self.vel * dt; self.rect.center = self.pos
Enemy_move(e, dt) ==
    LET pos == Vec(e.pos.x + displacement(e.vel.x, dt),
                   e.pos.y + displacement(e.vel.y, dt))
    IN  [e EXCEPT !.pos = pos, !.rect = Enemy_rect_centered(pos)]

\* -self.vel.x * 0.8
bounce(v) == -((v * 8) \div 10)

bounce_exact(v) == (v * 8) % 10 = 0

\* the body of handle_collisions' loop for one obstacle
Enemy_collide(e, obstacle) ==
    IF colliderect(e.rect, obstacle.rect)
    THEN
      LET overlap_x == Min({(e.rect.x + e.rect.w) - obstacle.rect.x,
                            (obstacle.rect.x + obstacle.rect.w) - e.rect.x})
          overlap_y == Min({(e.rect.y + e.rect.h) - obstacle.rect.y,
                            (obstacle.rect.y + obstacle.rect.h) - e.rect.y})
          pos == IF overlap_x < overlap_y
                 THEN Vec(IF center(e.rect).x < center(obstacle.rect).x
                          THEN e.pos.x - overlap_x ELSE e.pos.x + overlap_x,
                          e.pos.y)
                 ELSE Vec(e.pos.x,
                          IF center(e.rect).y < center(obstacle.rect).y
                          THEN e.pos.y - overlap_y ELSE e.pos.y + overlap_y)
          vel == IF overlap_x < overlap_y
                 THEN Vec(bounce(e.vel.x), e.vel.y)
                 ELSE Vec(e.vel.x, bounce(e.vel.y))
      IN  [e EXCEPT !.pos = pos, !.vel = vel, !.rect = Enemy_rect_centered(pos)]
    ELSE e

\* handle_collisions: the obstacles from index i on, in list order
RECURSIVE Enemy_handle_collisions(_, _, _)
Enemy_handle_collisions(e, obs, i) ==
    IF i > Len(obs) THEN e
    ELSE Enemy_handle_collisions(Enemy_collide(e, obs[i]), obs, i + 1)

Enemy_teleport_through_portal_ResetsPatrol(e, entry_portal, exit_portal, now) ==
    LET pos == Vec(exit_portal.pos.x, exit_portal.pos.y)
        angle_diff == exit_portal.angle - entry_portal.angle
    IN  [e EXCEPT !.pos = pos,
                  !.rect = Enemy_rect_centered(pos),
                  !.vel = rotate(e.vel, angle_diff),
                  !.last_portal_time = now,
                  !.patrol_points = <<pos>>]

Enemy_teleport_through_portal(e, entry_portal, exit_portal, now) ==
    LET pos == Vec(exit_portal.pos.x, exit_portal.pos.y)
        angle_diff == exit_portal.angle - entry_portal.angle
    IN  [e EXCEPT !.pos = pos,
                  !.rect = Enemy_rect_centered(pos),
                  !.vel = rotate(e.vel, angle_diff),
                  !.last_portal_time = now]

become_confused(e) == [e EXCEPT !.state = "confused", !.confusion_timer = confusion_time]

Enemy_entry_NoCooldown(e, blue, orange, now) ==
    IF blue # None /\ orange # None
    THEN IF colliderect(e.rect, blue.rect) THEN "blue"
         ELSE IF colliderect(e.rect, orange.rect) THEN "orange"
         ELSE "none"
    ELSE "none"

\* which portal check_portal_transition enters at time `now`
Enemy_entry(e, blue, orange, now) ==
    IF now - e.last_portal_time < portal_cooldown THEN "none"
    ELSE IF blue # None /\ orange # None
    THEN IF colliderect(e.rect, blue.rect) THEN "blue"
         ELSE IF colliderect(e.rect, orange.rect) THEN "orange"
         ELSE "none"
    ELSE "none"

Enemy_check_portal_transition(e, blue, orange, now) ==
    LET entry == Enemy_entry(e, blue, orange, now)
    IN  IF entry = "blue"
        THEN become_confused(Enemy_teleport_through_portal(e, blue, orange, now))
        ELSE IF entry = "orange"
        THEN become_confused(Enemy_teleport_through_portal(e, orange, blue, now))
        ELSE e

\* Enemy.update(dt, level) up to the portal check: state machine, act, move,
\* collisions
Enemy_before_check(e, dt, player_pos, obs, now, random_vel) ==
    Enemy_handle_collisions(
        Enemy_move(Enemy_act(Enemy_state_machine(e, dt, player_pos),
                             player_pos, now, random_vel), dt),
        obs, 1)

\* Enemy.update(dt, level)
Enemy_update(e, dt, player_pos, obs, blue, orange, now, random_vel) ==
    Enemy_check_portal_transition(
        Enemy_before_check(e, dt, player_pos, obs, now, random_vel),
        blue, orange, now)

-----------------------------------------------------------------------------
(* Level (level.py) *)

\* Level.load_level(0): ground, walls, ceiling, platforms, portal-resistant wall
Level0 ==
    << Obstacle(Rect(0, 500, 1000, 100), TRUE),
       Obstacle(Rect(0, 0, 50, 500), TRUE),
       Obstacle(Rect(950, 0, 50, 500), TRUE),
       Obstacle(Rect(0, 0, 1000, 50), TRUE),
       Obstacle(Rect(200, 400, 200, 20), TRUE),
       Obstacle(Rect(600, 300, 200, 20), TRUE),
       Obstacle(Rect(450, 300, 50, 200), FALSE) >>

\* Level.player_start_pos of level 0
PlayerStart == Vec(100, 400)

\* Level.player_start_pos before load_level sets it
DefaultStart == Vec(100, 100)

\* Level(level_number).obstacles: levels 1 and 2 load nothing
Level_obstacles(level_number) == IF level_number = 0 THEN Level0 ELSE << >>

\* Level(level_number).player_start_pos
Level_player_start_pos(level_number) ==
    IF level_number = 0 THEN PlayerStart ELSE DefaultStart

\* Level(level_number).physics_objects: the cube of level 0, or none
Level_physics_object(level_number) ==
    IF level_number = 0
    THEN [pos |-> Vec(300, 350), vel |-> Vec(0, 0), size |-> Vec(40, 40),
          on_ground |-> FALSE]
    ELSE None

-----------------------------------------------------------------------------
(* The raycaster and the placement applied to drawn obstacle sets *)

ThinWall == Obstacle(Rect(212, 380, 2, 100), TRUE)
NearWall == Obstacle(Rect(200, 380, 50, 100), FALSE)
FarWall == Obstacle(Rect(300, 380, 50, 100), TRUE)
FarWallResistant == Obstacle(Rect(300, 380, 50, 100), FALSE)
BeyondRange == Obstacle(Rect(1200, 380, 50, 100), TRUE)
SmallBlock == Obstacle(Rect(96, 500, 8, 8), TRUE)

RayLevels ==
    { Level0, <<>>,
      <<ThinWall, FarWallResistant>>, <<FarWallResistant, ThinWall>>,
      <<NearWall, FarWall>>, <<FarWall, NearWall>>,
      <<BeyondRange>>, <<SmallBlock, FarWall>> }

RayOrigins ==
    { PlayerStart, Vec(100, 436), Vec(201, 336), Vec(300, 100), Vec(520, 436),
      Vec(60, 60), Vec(100, 504) }

\* step_size times the unit directions that have whole components
UnitSteps ==
    { <<5, 0>>, <<-5, 0>>, <<0, 5>>, <<0, -5>>,
      <<3, 4>>, <<4, 3>>, <<-3, 4>>, <<-4, 3>>,
      <<3, -4>>, <<4, -3>>, <<-3, -4>>, <<-4, -3>> }

\* how many step lengths from the origin the farthest click lies
MaxTargetSteps == 2

\* click targets around `origin`: the origin itself, and points at whole
\* numbers of step lengths in each direction
Targets(origin) ==
    { Vec(origin.x + k * u[1], origin.y + k * u[2]) :
         u \in UnitSteps, k \in {0, 1, MaxTargetSteps, 20 * MaxTargetSteps} }

InitRay ==
    /\ game_state = "playing"
    /\ phase = "ray"
    /\ obstacles \in RayLevels
    /\ \E pos \in RayOrigins : player = [pos |-> pos, vel |-> Vec(0, 0)]
    /\ blue_portal = None
    /\ orange_portal = None
    /\ cube = [pos |-> Vec(300, 350), vel |-> Vec(0, 0), size |-> Vec(40, 40)]
    /\ enemy = None
    /\ current_level = 0
    /\ ticks = 0
    /\ last = [op |-> "init", n |-> 0]

\* Player.create_portal(target_pos, color, level), with its raycast
CreatePortalCall ==
    \E target_pos \in Targets(player.pos), color \in {"blue", "orange"} :
        /\ last.op = "init"
        /\ last' = [op |-> "create_portal", n |-> 0,
                    target_pos |-> target_pos, color |-> color,
                    hit |-> raycast_to_wall(player.pos, target_pos, obstacles),
                    portal |-> create_portal(player.pos, target_pos, color, obstacles)]
        /\ UNCHANGED <<current_level, game_state, phase, obstacles, player, blue_portal,
                       orange_portal, cube, enemy, ticks>>

\* points of a rectangle: its corners, its edges and its middle
PointsOf(r) ==
    { Vec(x, y) : x \in {r.x, r.x + 1, r.x + r.w \div 2, r.x + r.w - 1},
                  y \in {r.y, r.y + 1, r.y + r.h \div 2, r.y + r.h - 1} }

\* Player.calculate_wall_normal(hit_pos, obstacle) at a point of an obstacle
WallNormalCall ==
    \E i \in 1..Len(obstacles) :
       \E hit_pos \in PointsOf(obstacles[i].rect) :
          /\ last.op = "init"
          /\ last' = [op |-> "calculate_wall_normal", n |-> 0,
                      hit_pos |-> hit_pos, obstacle |-> obstacles[i],
                      normal |-> calculate_wall_normal(hit_pos, obstacles[i])]
          /\ UNCHANGED <<current_level, game_state, phase, obstacles, player, blue_portal,
                         orange_portal, cube, enemy, ticks>>

NextRay == CreatePortalCall \/ WallNormalCall

SpecRay == InitRay /\ [][NextRay]_vars

-----------------------------------------------------------------------------
(* Claims about the raycaster and the placement (under SpecRay) *)

Cast == last.op = "create_portal"

\* the create_portal call aimed away from the origin
Aimed == Cast /\ last.target_pos # player.pos

\* the whole step vector of the call's ray
RayStep ==
    direction_step(Vec(last.target_pos.x - player.pos.x,
                       last.target_pos.y - player.pos.y))

Max(S) == CHOOSE m \in S : \A n \in S : m >= n

\* 60 is a common multiple of the components 3, 4, 5 of a step vector: ray
\* parameters are whole numbers in units of 1/60 step (1/12 of a length unit)
ParamRange == 60 * NumSteps
Never == 10 * ParamRange

\* where the ray from coordinate o with step component u enters and leaves
\* the slab lo..hi
SlabIn(o, u, lo, hi) ==
    IF u > 0 THEN (60 \div u) * (lo - o)
    ELSE IF u < 0 THEN (60 \div (-u)) * (o - hi)
    ELSE IF lo <= o /\ o < hi THEN -Never ELSE Never

SlabOut(o, u, lo, hi) ==
    IF u > 0 THEN (60 \div u) * (hi - o)
    ELSE IF u < 0 THEN (60 \div (-u)) * (o - lo)
    ELSE IF lo <= o /\ o < hi THEN Never ELSE -Never

InX(r) == SlabIn(player.pos.x, RayStep.x, r.x, r.x + r.w)
InY(r) == SlabIn(player.pos.y, RayStep.y, r.y, r.y + r.h)
OutX(r) == SlabOut(player.pos.x, RayStep.x, r.x, r.x + r.w)
OutY(r) == SlabOut(player.pos.y, RayStep.y, r.y, r.y + r.h)

\* the ray's parameter where it enters rectangle r, and where it leaves it
EntryParam(r) == Max({InX(r), InY(r)})
ExitParam(r) == Min({OutX(r), OutY(r)})

\* the ray starts outside r and crosses it within the range of the march
CrossedInRange(r) ==
    /\ EntryParam(r) > 0
    /\ EntryParam(r) < ExitParam(r)
    /\ EntryParam(r) < ParamRange

\* the outward normals of the face (two at an exact corner) through which the
\* ray enters r
EntryFaceNormals(r) ==
    LET xface == IF RayStep.x > 0 THEN <<-1, 0>> ELSE <<1, 0>>
        yface == IF RayStep.y > 0 THEN <<0, -1>> ELSE <<0, 1>>
    IN  IF InX(r) > InY(r) THEN {xface}
        ELSE IF InY(r) > InX(r) THEN {yface}
        ELSE {xface, yface}

\* C4: create_portal returns no portal whenever the obstacle struck by the
\* raycast has allows_portals = false, for every hit point and hit normal.
C4_ResistantObstacleRejected ==
    (Cast /\ last.hit.obstacle # None /\ ~last.hit.obstacle.allows_portals)
        => last.portal = None

\* a call whose ray strikes a portal-resistant obstacle on its top or bottom half
C4_Witness ==
    /\ Cast
    /\ last.hit.obstacle # None
    /\ ~last.hit.obstacle.allows_portals
    /\ Truthy(last.hit.pos)
    /\ last.hit.normal \in {<<-1, 0>>, <<0, -1>>}

\* C14: for every accepted placement the portal's orientation is "vertical"
\* exactly when |normal.x| > |normal.y| and "horizontal" otherwise, with no
\* third value: normals (-1,0) and (1,0) give vertical, (0,-1) and (0,1)
\* horizontal.
C14_OrientationFromNormal ==
    (Cast /\ last.portal # None) =>
        /\ last.portal.orientation \in {"vertical", "horizontal"}
        /\ (last.portal.orientation = "vertical")
              <=> (Abs(last.hit.normal[1]) > Abs(last.hit.normal[2]))
        /\ last.hit.normal \in {<<-1, 0>>, <<1, 0>>} => last.portal.orientation = "vertical"
        /\ last.hit.normal \in {<<0, -1>>, <<0, 1>>} => last.portal.orientation = "horizontal"

\* an accepted placement on the underside of an obstacle
C14_Witness ==
    /\ Cast
    /\ last.portal # None
    /\ last.hit.normal = <<0, 1>>
    /\ last.portal.orientation = "horizontal"

\* C15: when the raycast origin equals the target (zero-length direction),
\* raycast_to_wall returns "no hit" (no point, no normal, no obstacle) for
\* every obstacle set, and the create_portal call yields no portal.
C15_ZeroLengthDirectionRejected ==
    (Cast /\ last.target_pos = player.pos) =>
        /\ last.hit.pos = None /\ last.hit.normal = None /\ last.hit.obstacle = None
        /\ last.portal = None

\* a click on the origin itself in level 0, where rays in other directions
\* strike portal-capable obstacles
C15_Witness ==
    /\ Cast
    /\ last.target_pos = player.pos
    /\ obstacles = Level0
    /\ player.pos = PlayerStart

\* p lies on or inside the rectangle r
OnOrInside(r, p) ==
    /\ r.x <= p.x /\ p.x <= r.x + r.w
    /\ r.y <= p.y /\ p.y <= r.y + r.h

\* C16: every raycast result is either "no hit" (hit point, normal and
\* obstacle all absent) or a hit whose point lies on or inside the returned
\* obstacle's rectangle and whose normal is one of (-1,0), (1,0), (0,-1), (0,1).
C16_RaycastResultShape ==
    Cast =>
        \/ (last.hit.pos = None /\ last.hit.normal = None /\ last.hit.obstacle = None)
        \/ /\ last.hit.pos # None /\ last.hit.normal # None /\ last.hit.obstacle # None
           /\ \E i \in 1..Len(obstacles) : obstacles[i] = last.hit.obstacle
           /\ OnOrInside(last.hit.obstacle.rect, last.hit.pos)
           /\ last.hit.normal \in {<<-1, 0>>, <<1, 0>>, <<0, -1>>, <<0, 1>>}

\* a hit whose point lies on the left edge of the struck rectangle
C16_Witness ==
    /\ Aimed
    /\ last.hit.obstacle # None
    /\ last.hit.pos.x = last.hit.obstacle.rect.x
    /\ last.hit.normal = <<-1, 0>>

\* C5: for any two non-overlapping obstacles that the ray crosses at different
\* distances within the 1000-unit range, raycast_to_wall returns the obstacle
\* nearer to the origin, whatever their thickness and order in the list.
C5_NearerObstacleReturned ==
    Aimed =>
      \A i, j \in 1..Len(obstacles) :
        ( /\ ~colliderect(obstacles[i].rect, obstacles[j].rect)
          /\ CrossedInRange(obstacles[i].rect)
          /\ CrossedInRange(obstacles[j].rect)
          /\ EntryParam(obstacles[i].rect) < EntryParam(obstacles[j].rect) )
        => /\ last.hit.obstacle # obstacles[j]
           /\ Len(obstacles) = 2 => last.hit.obstacle = obstacles[i]

\* the ray enters r inside a face: not at a corner, not along an edge line
EntersInsideFace(r) ==
    LET t == EntryParam(r)
        x == 60 * player.pos.x + t * RayStep.x
        y == 60 * player.pos.y + t * RayStep.y
    IN  /\ t > 0
        /\ InX(r) # InY(r)
        /\ InX(r) > InY(r) => (60 * r.y < y /\ y < 60 * (r.y + r.h))
        /\ InY(r) > InX(r) => (60 * r.x < x /\ x < 60 * (r.x + r.w))

\* C6: for every raycast hit, the returned normal is the outward normal of the
\* obstacle face through which the ray entered the obstacle, including hits
\* near a corner (stated for rays that enter inside a face, where the entered
\* face is beyond dispute).
C6_NormalOfEntryFace ==
    (Aimed /\ last.hit.obstacle # None /\ EntersInsideFace(last.hit.obstacle.rect))
        => last.hit.normal \in EntryFaceNormals(last.hit.obstacle.rect)

\* the probe point, rectangle and normal of the last normal computation
NormalComputed ==
    \/ last.op = "calculate_wall_normal"
    \/ Cast /\ last.hit.obstacle # None
ProbePoint == IF Cast THEN last.hit.pos ELSE last.hit_pos
ProbedRect == IF Cast THEN last.hit.obstacle.rect ELSE last.obstacle.rect
ProbeNormal == IF Cast THEN last.hit.normal ELSE last.normal
DistLeft == Abs(ProbePoint.x - ProbedRect.x)
DistRight == Abs(ProbePoint.x - (ProbedRect.x + ProbedRect.w))
DistTop == Abs(ProbePoint.y - ProbedRect.y)
DistBottom == Abs(ProbePoint.y - (ProbedRect.y + ProbedRect.h))

\* C7: calculate_wall_normal returns the normal of the edge at minimum distance
\* from the probe point: (-1,0) left, (1,0) right, (0,-1) top, (0,1) bottom; of
\* several edges at the same minimum distance the first in the order left,
\* right, top, bottom wins.
C7_NearestEdgeNormal ==
    NormalComputed =>
      /\ ProbeNormal = <<-1, 0>> <=>
            (DistLeft <= DistRight /\ DistLeft <= DistTop /\ DistLeft <= DistBottom)
      /\ ProbeNormal = <<1, 0>> <=>
            (DistRight < DistLeft /\ DistRight <= DistTop /\ DistRight <= DistBottom)
      /\ ProbeNormal = <<0, -1>> <=>
            (DistTop < DistLeft /\ DistTop < DistRight /\ DistTop <= DistBottom)
      /\ ProbeNormal = <<0, 1>> <=>
            (DistBottom < DistLeft /\ DistBottom < DistRight /\ DistBottom < DistTop)

\* a probe point as near to the right edge as to the top edge, and farther
\* from the left edge
C7_Witness ==
    /\ last.op = "calculate_wall_normal"
    /\ DistRight = DistTop
    /\ DistRight < DistLeft
    /\ DistRight < DistBottom
    /\ last.normal = <<1, 0>>

\* the steps, of the NumSteps steps of `step` from `origin`, whose point lies
\* inside some obstacle of obs, and inside some portal-capable one
StepsInside(origin, step, obs) ==
    { k \in 1..NumSteps :
        \E h \in 1..Len(obs) :
            collidepoint(obs[h].rect, Vec(origin.x + k * step.x, origin.y + k * step.y)) }

StepsInsideEligible(origin, step, obs) ==
    { k \in 1..NumSteps :
        \E h \in 1..Len(obs) :
            /\ obs[h].allows_portals
            /\ collidepoint(obs[h].rect, Vec(origin.x + k * step.x, origin.y + k * step.y)) }

\* the first obstacle, in list order, that contains point p
FirstAt(p, obs) == obs[Min({h \in 1..Len(obs) : collidepoint(obs[h].rect, p)})]

\* the hit said of a ray: nothing when no step's point lies inside an
\* obstacle, else the first such point and the first obstacle containing it
SaidHit(origin, step, obs) ==
    LET inside == StepsInside(origin, step, obs)
    IN  IF inside = {} THEN [pos |-> None, obstacle |-> None]
        ELSE LET k == Min(inside)
                 p == Vec(origin.x + k * step.x, origin.y + k * step.y)
             IN  [pos |-> p, obstacle |-> FirstAt(p, obs)]

\* C23: raycast_to_wall does not filter by portal eligibility: the first
\* obstacle whose rectangle contains a probe point is returned even when its
\* allows_portals is false, so the placement is rejected whenever a
\* portal-forbidding obstacle is the first hit, even if a portal-allowing
\* obstacle lies farther along the same ray.
C23_NoEligibilityFilter ==
    Aimed =>
        LET said == SaidHit(player.pos, RayStep, obstacles)
        IN  /\ last.hit.pos = said.pos
            /\ last.hit.obstacle = said.obstacle
            /\ (said.obstacle # None /\ ~said.obstacle.allows_portals) =>
                  last.portal = None

\* a ray that strikes a portal-forbidding obstacle first and would reach a
\* portal-allowing one farther on
C23_Witness ==
    /\ Aimed
    /\ last.hit.obstacle # None
    /\ ~last.hit.obstacle.allows_portals
    /\ last.portal = None
    /\ \E k \in StepsInsideEligible(player.pos, RayStep, obstacles) :
          (last.hit.pos.x - player.pos.x) * (last.hit.pos.x - player.pos.x)
            + (last.hit.pos.y - player.pos.y) * (last.hit.pos.y - player.pos.y)
          < k * k * step_size * step_size

\* the portal is w wide and h high with its rectangle centred on point p
CentredOn(portal, p, w, h) ==
    /\ portal.width = w /\ portal.height = h
    /\ portal.pos = Vec(p.x - w \div 2, p.y - h \div 2)
    /\ portal.rect = Rect(p.x - w \div 2, p.y - h \div 2, w, h)
    /\ center(portal.rect) = p

\* C24: for every accepted placement the portal's top-left is the hit point
\* minus (width/2, height/2): its rectangle, 20 x 80 for vertical and 80 x 20
\* for horizontal, is centred on the hit point on both axes, for either sign
\* of the normal (left- or right-facing wall, floor or ceiling).
C24_CentredOnHitPoint ==
    (Cast /\ last.portal # None) =>
        /\ last.hit.normal \in {<<-1, 0>>, <<1, 0>>} =>
              CentredOn(last.portal, last.hit.pos, 20, 80)
        /\ last.hit.normal \in {<<0, -1>>, <<0, 1>>} =>
              CentredOn(last.portal, last.hit.pos, 80, 20)

\* an accepted placement on a face whose normal points right
C24_Witness ==
    /\ Cast
    /\ last.portal # None
    /\ last.hit.normal = <<1, 0>>
    /\ last.portal.orientation = "vertical"

\* the steps, of the first n steps of `step` from `origin`, whose point lies
\* inside rectangle r
StepsIn(origin, step, r, n) ==
    { k \in 1..n : collidepoint(r, Vec(origin.x + k * step.x, origin.y + k * step.y)) }

\* C27: raycast_to_wall tests exactly the 200 probe points at distances 5, 10,
\* ..., 1000 from the origin along the ray: the origin itself is never tested,
\* an empty obstacle set gives "no hit", an obstacle whose rectangle contains
\* none of these points is never reported, and an obstacle that contains one
\* of them is not missed.
C27_TwoHundredProbes ==
    Aimed =>
        LET step == RayStep
        IN  /\ step.x * step.x + step.y * step.y = 5 * 5
            /\ last.hit.pos # None =>
                  \E k \in 1..200 :
                      last.hit.pos = Vec(player.pos.x + k * step.x, player.pos.y + k * step.y)
            /\ obstacles = << >> => last.hit = NoHit
            /\ \A i \in 1..Len(obstacles) :
                  LET touched == StepsIn(player.pos, step, obstacles[i].rect, 200)
                  IN  /\ touched = {} => last.hit.obstacle # obstacles[i]
                      /\ touched # {} => last.hit.pos # None

\* a ray that starts inside an obstacle, leaves it with its first step and
\* finds nothing within range
C27_Witness ==
    /\ Aimed
    /\ \E i \in 1..Len(obstacles) : collidepoint(obstacles[i].rect, player.pos)
    /\ last.hit = NoHit

\* targets a and b lie on the same half-line from origin
SameHalfLine(origin, a, b) ==
    LET ax == a.x - origin.x
        ay == a.y - origin.y
        bx == b.x - origin.x
        by == b.y - origin.y
    IN  /\ ax * by = ay * bx
        /\ ax * bx + ay * by > 0

\* the square of the distance between two points
Dist2(a, b) == (a.x - b.x) * (a.x - b.x) + (a.y - b.y) * (a.y - b.y)

\* C28: the raycast result depends only on the origin and on the direction
\* toward the target, not on the target's distance: two targets on the same
\* half-line from the origin give the same hit point, normal and obstacle (the
\* march goes on past the target, up to 1000 units).
C28_TargetDistanceIrrelevant ==
    Aimed =>
        \A other \in Targets(player.pos) :
            SameHalfLine(player.pos, last.target_pos, other) =>
                raycast_to_wall(player.pos, other, obstacles) = last.hit

\* a click one step from the origin whose ray strikes an obstacle beyond the
\* click, with a farther click on the same half-line
C28_Witness ==
    /\ Aimed
    /\ last.hit.pos # None
    /\ last.portal # None
    /\ Dist2(player.pos, last.target_pos) = step_size * step_size
    /\ Dist2(player.pos, last.hit.pos) > Dist2(player.pos, last.target_pos)
    /\ \E other \in Targets(player.pos) :
          /\ other # last.target_pos
          /\ SameHalfLine(player.pos, last.target_pos, other)

-----------------------------------------------------------------------------
(* The transfer check applied to drawn portals and actor states *)

\* transfer checks applied in a row to the same actors
MaxChecks == 2

\* an enemy after some update: placed at pos, moving at vel, its rectangle
\* centred on pos
NewEnemy(pos, vel) ==
    [Enemy_init(pos, <<pos>>) EXCEPT !.vel = vel, !.rect = Enemy_rect_centered(pos)]

\* hit points and normals of the portals drawn for the transfer checks
TransferHits ==
    { <<Vec(400, 300), <<-1, 0>> >>, <<Vec(700, 300), <<1, 0>> >>,
      <<Vec(400, 500), <<0, -1>> >>, <<Vec(700, 100), <<0, 1>> >>,
      <<Vec(430, 310), <<-1, 0>> >> }

TransferPortals(color) ==
    {place_portal(h[1], h[2], color) : h \in TransferHits} \cup {None}

\* actor positions: over each drawn portal, and away from all of them
TransferPositions ==
    { Vec(380, 270), Vec(395, 300), Vec(690, 280), Vec(380, 480), Vec(680, 80),
      Vec(100, 100), Vec(408, 300) }

TransferVelocities ==
    { Vec(PxPerSec(300), 0), Vec(PxPerSec(-300), 0), Vec(0, PxPerSec(600)),
      Vec(0, PxPerSec(-600)), Vec(PxPerSec(200), PxPerSec(-100)), Vec(0, 0),
      Vec(PxPerSec(200), 0) }

CubeSizes == { Vec(40, 40), Player_size }

InitTransfer ==
    /\ game_state = "playing"
    /\ phase = "transfer"
    /\ obstacles = <<>>
    /\ blue_portal \in TransferPortals("blue")
    /\ orange_portal \in TransferPortals("orange")
    /\ \E pos \in TransferPositions, vel \in TransferVelocities, size \in CubeSizes :
          /\ player = [pos |-> pos, vel |-> vel]
          /\ cube = [pos |-> pos, vel |-> vel, size |-> size]
          /\ enemy = NewEnemy(pos, vel)
    /\ current_level = 0
    /\ ticks \in {500, 2000}
    /\ last = [op |-> "init", n |-> 0]

\* one transfer check of each actor kind, as at the end of each update()
TransferCheck ==
    /\ last.n < MaxChecks
    /\ Boostable(player.vel) /\ Boostable(cube.vel)
    /\ player' = Player_check_portal_transition(player, blue_portal, orange_portal)
    /\ cube' = PhysicsObject_check_portal_transition(cube, blue_portal, orange_portal)
    /\ enemy' = Enemy_check_portal_transition(enemy, blue_portal, orange_portal, ticks)
    /\ last' = [op |-> "check_portal_transition", n |-> last.n + 1,
                player |-> player, cube |-> cube, enemy |-> enemy,
                entry |-> [player |-> Player_entry(player, blue_portal, orange_portal),
                           cube |-> PhysicsObject_entry(cube, blue_portal, orange_portal),
                           enemy |-> Enemy_entry(enemy, blue_portal, orange_portal, ticks)],
                prev |-> IF last.op = "init" THEN None
                         ELSE [player |-> last.player, cube |-> last.cube,
                               entry |-> last.entry]]
    /\ UNCHANGED <<current_level, game_state, phase, obstacles, blue_portal, orange_portal, ticks>>

NextTransfer == TransferCheck

SpecTransfer == InitTransfer /\ [][NextTransfer]_vars

Checked == last.op = "check_portal_transition"

\* the entry and exit portal of a check that entered `entry`
EntryOf(entry) == IF entry = "blue" THEN blue_portal ELSE orange_portal
ExitOf(entry) == IF entry = "blue" THEN orange_portal ELSE blue_portal

-----------------------------------------------------------------------------
(* Claims about the transfer check (under SpecTransfer) *)

Transferred(kind) == Checked /\ last.entry[kind] # "none"

\* the two portals lie more than a portal's length apart on some axis
FarApart(a, b) ==
    \/ Abs(a.pos.x - b.pos.x) > 2 * PortalLongSide
    \/ Abs(a.pos.y - b.pos.y) > 2 * PortalLongSide

\* C2: immediately after a successful transfer of the player or of a physics
\* body, the actor's bounding rectangle intersects neither the entry portal's
\* nor the exit portal's rectangle (stated for portals that lie far apart, so
\* that an overlap is not owed to the portals themselves overlapping).
C2_NoOverlapAfterTransfer ==
    (blue_portal # None /\ orange_portal # None /\ FarApart(blue_portal, orange_portal)) =>
    /\ Transferred("player") =>
          /\ ~colliderect(Player_rect(player), blue_portal.rect)
          /\ ~colliderect(Player_rect(player), orange_portal.rect)
    /\ Transferred("cube") =>
          /\ ~colliderect(PhysicsObject_rect(cube), blue_portal.rect)
          /\ ~colliderect(PhysicsObject_rect(cube), orange_portal.rect)

\* C3: whenever the blue or the orange slot is empty, the transfer check of a
\* player, a physics body or an enemy leaves the actor's position and velocity
\* unchanged.
C3_NoTransferWhenSlotEmpty ==
    (Checked /\ (blue_portal = None \/ orange_portal = None)) =>
        /\ player.pos = last.player.pos /\ player.vel = last.player.vel
        /\ cube.pos = last.cube.pos /\ cube.vel = last.cube.vel
        /\ enemy.pos = last.enemy.pos /\ enemy.vel = last.enemy.vel

\* a check with one slot empty while each actor overlaps the live portal, is
\* moving, and the enemy's cooldown has elapsed
C3_Witness ==
    /\ Checked
    /\ blue_portal # None /\ orange_portal = None
    /\ colliderect(Player_rect(last.player), blue_portal.rect)
    /\ colliderect(PhysicsObject_rect(last.cube), blue_portal.rect)
    /\ colliderect(last.enemy.rect, blue_portal.rect)
    /\ ticks - last.enemy.last_portal_time >= portal_cooldown
    /\ last.player.vel # Vec(0, 0)

\* penetration direction, velocity and position a transfer is said to produce
SaidDir(vel, entry_portal) ==
    IF entry_portal.orientation = "vertical"
    THEN (IF vel.x > 0 THEN 1 ELSE -1)
    ELSE (IF vel.y > 0 THEN 1 ELSE -1)

SaidRotated(vel, entry_portal, exit_portal) ==
    IF entry_portal.orientation = exit_portal.orientation THEN vel
    ELSE IF entry_portal.orientation = "vertical" THEN Vec(vel.y, -vel.x)
    ELSE Vec(-vel.y, vel.x)

\* v is w scaled by 1.05
Scaled105(v, w) == v.x * 100 = w.x * 105 /\ v.y * 100 = w.y * 105

\* pos follows the rule: clearance times direction from the exit portal's
\* top-left on the exit axis; on the other axis the actor's centre is as far
\* from the exit portal's centre as it was from the entry portal's centre
SaidPosition(pos, before, size, entry_portal, exit_portal, clearance) ==
    LET dir == SaidDir(before.vel, entry_portal)
        ec  == center(entry_portal.rect)
        xc  == center(exit_portal.rect)
    IN  IF exit_portal.orientation = "vertical"
        THEN /\ pos.x = exit_portal.pos.x + clearance * dir
             /\ (pos.y + size.y \div 2) - xc.y = (before.pos.y + size.y \div 2) - ec.y
        ELSE /\ pos.y = exit_portal.pos.y + clearance * dir
             /\ (pos.x + size.x \div 2) - xc.x = (before.pos.x + size.x \div 2) - ec.x

SaidClearance(size, exit_portal) ==
    IF exit_portal.orientation = "vertical" THEN size.x \div 2 ELSE size.y \div 2

\* the check transferred `kind` between two portals of the same orientation
SameOrientationTransfer(kind) ==
    /\ Transferred(kind)
    /\ blue_portal.orientation = orange_portal.orientation

\* C12: when the entry and exit portals have the same orientation, the
\* velocity of a transferred player or physics body is the velocity before the
\* transfer scaled by 1.05, direction kept; (200, 0) becomes (210, 0).
C12_SameOrientationKeepsDirection ==
    /\ SameOrientationTransfer("player") =>
          /\ Scaled105(player.vel, last.player.vel)
          /\ last.player.vel = Vec(PxPerSec(200), 0) => player.vel = Vec(PxPerSec(210), 0)
    /\ SameOrientationTransfer("cube") =>
          /\ Scaled105(cube.vel, last.cube.vel)
          /\ last.cube.vel = Vec(PxPerSec(200), 0) => cube.vel = Vec(PxPerSec(210), 0)

\* player and body entering with (200, 0) between two portals of the same
\* orientation at different places
C12_Witness ==
    /\ SameOrientationTransfer("player")
    /\ SameOrientationTransfer("cube")
    /\ blue_portal.pos # orange_portal.pos
    /\ last.player.vel = Vec(PxPerSec(200), 0)
    /\ last.cube.vel = Vec(PxPerSec(200), 0)

\* two checks in a row took `kind` through one portal and back through the other
RoundTrip(kind) ==
    /\ Transferred(kind)
    /\ last.prev # None
    /\ last.prev.entry[kind] # "none"
    /\ last.prev.entry[kind] # last.entry[kind]

\* v is w scaled by 1.05 twice (1.1025 = 441/400)
Scaled105Twice(v, w) == v.x * 400 = w.x * 441 /\ v.y * 400 = w.y * 441

\* C13: a player or physics body transferred from portal A to portal B and
\* then from B to A ends with its original velocity direction and with the
\* magnitude scaled by 1.05 x 1.05, for every pair of orientations of A and B.
C13_RoundTripKeepsDirection ==
    /\ RoundTrip("player") => Scaled105Twice(player.vel, last.prev.player.vel)
    /\ RoundTrip("cube") => Scaled105Twice(cube.vel, last.prev.cube.vel)

\* a round trip of a moving player and body between a vertical and a
\* horizontal portal
C13_Witness ==
    /\ RoundTrip("player") /\ RoundTrip("cube")
    /\ blue_portal.orientation # orange_portal.orientation
    /\ last.prev.player.vel # Vec(0, 0)

\* the coordinate of a point along a portal's orientation axis (x for a
\* vertical portal, y for a horizontal one), and along its cross axis
AlongAxis(pos, portal) == IF portal.orientation = "vertical" THEN pos.x ELSE pos.y
AlongCross(pos, portal) == IF portal.orientation = "vertical" THEN pos.y ELSE pos.x

\* C19: after a transfer, the actor's top-left coordinate along the exit
\* portal's orientation axis is the exit portal's top-left coordinate plus
\* clearance times penetrationDirection, with clearance 25 for the player and
\* half the body's size on that axis for a physics body: the actor is put on
\* the positive side when it moved in the positive direction along the entry
\* portal's axis, and on the negative side otherwise.
C19_ExitAxisClearance ==
    \A entry \in {"blue", "orange"} :
        LET en == EntryOf(entry)
            ex == ExitOf(entry)
        IN  /\ (Checked /\ last.entry.player = entry) =>
                  /\ AlongAxis(player.pos, ex) =
                         AlongAxis(ex.pos, ex) + 25 * SaidDir(last.player.vel, en)
                  /\ AlongAxis(last.player.vel, en) > 0 =>
                         AlongAxis(player.pos, ex) > AlongAxis(ex.pos, ex)
                  /\ AlongAxis(last.player.vel, en) < 0 =>
                         AlongAxis(player.pos, ex) < AlongAxis(ex.pos, ex)
            /\ (Checked /\ last.entry.cube = entry) =>
                  /\ 2 * AlongAxis(cube.pos, ex) =
                         2 * AlongAxis(ex.pos, ex)
                           + AlongAxis(cube.size, ex) * SaidDir(last.cube.vel, en)
                  /\ AlongAxis(last.cube.vel, en) > 0 =>
                         AlongAxis(cube.pos, ex) > AlongAxis(ex.pos, ex)
                  /\ AlongAxis(last.cube.vel, en) < 0 =>
                         AlongAxis(cube.pos, ex) < AlongAxis(ex.pos, ex)

\* player and a 40 x 40 body transferred by one check, moving in the positive
\* direction along the entry portal's axis, between portals of different
\* orientations
C19_Witness ==
    /\ Transferred("player")
    /\ Transferred("cube")
    /\ cube.size = Vec(40, 40)
    /\ blue_portal.orientation # orange_portal.orientation
    /\ AlongAxis(last.player.vel, EntryOf(last.entry.player)) > 0

\* the offset of an actor's centre from a portal's centre along the portal's
\* cross axis
CrossOffset(pos, size, portal) ==
    AlongCross(Vec(pos.x + size.x \div 2, pos.y + size.y \div 2), portal)
      - AlongCross(center(portal.rect), portal)

\* C20: after a transfer of a player or physics body, the offset of the actor's
\* centre from the exit portal's centre along the exit portal's cross axis
\* equals the offset, before the transfer, of the actor's centre from the entry
\* portal's centre along the entry portal's cross axis, whatever the two
\* orientations.
C20_LateralOffsetPreserved ==
    \A entry \in {"blue", "orange"} :
        LET en == EntryOf(entry)
            ex == ExitOf(entry)
        IN  /\ (Checked /\ last.entry.player = entry) =>
                  CrossOffset(player.pos, Player_size, ex) =
                      CrossOffset(last.player.pos, Player_size, en)
            /\ (Checked /\ last.entry.cube = entry) =>
                  CrossOffset(cube.pos, cube.size, ex) =
                      CrossOffset(last.cube.pos, cube.size, en)

\* the side of the exit portal's top-left, along the exit portal's orientation
\* axis, on which a transferred actor's top-left lies
SideOf(pos, exit_portal) ==
    IF AlongAxis(pos, exit_portal) > AlongAxis(exit_portal.pos, exit_portal) THEN 1 ELSE -1

SignZeroPositive(n) == IF n >= 0 THEN 1 ELSE -1
SignZeroNegative(n) == IF n > 0 THEN 1 ELSE -1

\* C21: penetrationDirection is the sign of the actor's velocity component
\* along the entry portal's orientation axis: +1 when positive, -1 when
\* negative, and +1 when the component is exactly zero, identically for the
\* player and for a physics body.
C21_ZeroDefaultsPositive ==
    \A entry \in {"blue", "orange"} :
        LET en == EntryOf(entry)
            ex == ExitOf(entry)
        IN  /\ (Checked /\ last.entry.player = entry) =>
                  SideOf(player.pos, ex) = SignZeroPositive(AlongAxis(last.player.vel, en))
            /\ (Checked /\ last.entry.cube = entry) =>
                  SideOf(cube.pos, ex) = SignZeroPositive(AlongAxis(last.cube.vel, en))

\* C21 as amended: penetrationDirection is +1 when the velocity component
\* along the entry portal's orientation axis is positive and -1 when it is
\* negative or exactly zero, identically for the player and for a physics body.
C21_ZeroDefaultsNegative ==
    \A entry \in {"blue", "orange"} :
        LET en == EntryOf(entry)
            ex == ExitOf(entry)
        IN  /\ (Checked /\ last.entry.player = entry) =>
                  /\ SideOf(player.pos, ex) = SignZeroNegative(AlongAxis(last.player.vel, en))
                  /\ AlongAxis(player.pos, ex) - AlongAxis(ex.pos, ex) \in {25, -25}
            /\ (Checked /\ last.entry.cube = entry) =>
                  /\ SideOf(cube.pos, ex) = SignZeroNegative(AlongAxis(last.cube.vel, en))
                  /\ 2 * Abs(AlongAxis(cube.pos, ex) - AlongAxis(ex.pos, ex)) =
                         AlongAxis(cube.size, ex)
            /\ (Checked /\ last.entry.player = entry /\ last.entry.cube = entry
                   /\ last.player.vel = last.cube.vel) =>
                  SideOf(player.pos, ex) = SideOf(cube.pos, ex)

\* player and body transferred by one check while moving, with no velocity
\* along the entry portal's orientation axis
C21_Witness ==
    /\ Transferred("player")
    /\ Transferred("cube")
    /\ last.player.vel # Vec(0, 0)
    /\ AlongAxis(last.player.vel, EntryOf(last.entry.player)) = 0
    /\ AlongAxis(last.cube.vel, EntryOf(last.entry.cube)) = 0

\* exit.angle - entry.angle
AngleDelta(entry_portal, exit_portal) == exit_portal.angle - entry_portal.angle

\* what is said of the velocity after a transfer with velocity `before`
SaidQuarterTurn(after, before, entry_portal, exit_portal) ==
    /\ AngleDelta(entry_portal, exit_portal) \in {-90, 0, 90}
    /\ (entry_portal.orientation = "vertical" /\ exit_portal.orientation = "horizontal") =>
          /\ AngleDelta(entry_portal, exit_portal) = -90
          /\ Scaled105(after, Vec(before.y, -before.x))
    /\ (entry_portal.orientation = "horizontal" /\ exit_portal.orientation = "vertical") =>
          /\ AngleDelta(entry_portal, exit_portal) = 90
          /\ Scaled105(after, Vec(-before.y, before.x))

\* C22: angleDelta = exit.angle - entry.angle is -90, 0 or 90; for a vertical
\* entry and horizontal exit (-90) a velocity (vx, vy) of a player or physics
\* body becomes 1.05 x (vy, -vx), and for a horizontal entry and vertical exit
\* (+90) it becomes 1.05 x (-vy, vx).
C22_QuarterTurns ==
    \A entry \in {"blue", "orange"} :
        /\ (Checked /\ last.entry.player = entry) =>
              SaidQuarterTurn(player.vel, last.player.vel, EntryOf(entry), ExitOf(entry))
        /\ (Checked /\ last.entry.cube = entry) =>
              SaidQuarterTurn(cube.vel, last.cube.vel, EntryOf(entry), ExitOf(entry))

\* player and body transferred from a vertical to a horizontal portal with a
\* velocity that has both components
C22_Witness ==
    /\ Transferred("player")
    /\ Transferred("cube")
    /\ EntryOf(last.entry.player).orientation = "vertical"
    /\ ExitOf(last.entry.player).orientation = "horizontal"
    /\ last.player.vel.x # 0 /\ last.player.vel.y # 0

\* rectangle r overlaps one of the two portals, both being live
OverlapsPortal(r) ==
    /\ blue_portal # None /\ orange_portal # None
    /\ (colliderect(r, blue_portal.rect) \/ colliderect(r, orange_portal.rect))

\* the actor went from `before` to `after` by a transfer: it overlapped the
\* entry portal, and afterwards stands at the clearance from the exit
\* portal with its velocity rotated and scaled by 1.05
MovedByTransfer(before, after, r, clearances) ==
    \E entry \in {"blue", "orange"} :
        LET en == EntryOf(entry)
            ex == ExitOf(entry)
        IN  /\ colliderect(r, en.rect)
            /\ Abs(AlongAxis(after.pos, ex) - AlongAxis(ex.pos, ex)) \in clearances
            /\ Scaled105(after.vel, SaidRotated(before.vel, en, ex))

\* C25: the player and physics bodies have no transfer cooldown: with both
\* slots live, an actor whose rectangle overlaps a portal at the transfer check
\* of two consecutive ticks is transferred on both ticks.
C25_NoCooldown ==
    (Checked /\ last.prev # None) =>
        /\ (OverlapsPortal(Player_rect(last.prev.player))
               /\ OverlapsPortal(Player_rect(last.player))) =>
              /\ MovedByTransfer(last.prev.player, last.player,
                                 Player_rect(last.prev.player), {25})
              /\ MovedByTransfer(last.player, player, Player_rect(last.player), {25})
        /\ (OverlapsPortal(PhysicsObject_rect(last.prev.cube))
               /\ OverlapsPortal(PhysicsObject_rect(last.cube))) =>
              /\ MovedByTransfer(last.prev.cube, last.cube,
                                 PhysicsObject_rect(last.prev.cube),
                                 {cube.size.x \div 2, cube.size.y \div 2})
              /\ MovedByTransfer(last.cube, cube, PhysicsObject_rect(last.cube),
                                 {cube.size.x \div 2, cube.size.y \div 2})

\* player and body sent from blue to orange by one check, left overlapping
\* the orange portal, and sent back by the next check
C25_Witness ==
    /\ Checked
    /\ last.prev # None
    /\ blue_portal # None /\ orange_portal # None
    /\ blue_portal.rect # orange_portal.rect
    /\ colliderect(Player_rect(last.prev.player), blue_portal.rect)
    /\ ~colliderect(Player_rect(last.player), blue_portal.rect)
    /\ colliderect(Player_rect(last.player), orange_portal.rect)
    /\ colliderect(PhysicsObject_rect(last.prev.cube), blue_portal.rect)
    /\ ~colliderect(PhysicsObject_rect(last.cube), blue_portal.rect)
    /\ colliderect(PhysicsObject_rect(last.cube), orange_portal.rect)
    /\ player.vel # Vec(0, 0)

\* `after` is the actor one transfer after it had velocity before_vel and
\* entered the portal of colour `entry`: at the clearance from the other
\* portal, with the velocity rotated and scaled by 1.05 once
OneTransfer(before_vel, after, entry, clearances) ==
    LET en == EntryOf(entry)
        ex == ExitOf(entry)
    IN  /\ Abs(AlongAxis(after.pos, ex) - AlongAxis(ex.pos, ex)) \in clearances
        /\ Scaled105(after.vel, SaidRotated(before_vel, en, ex))

\* the enemy one transfer after entering the portal of colour `entry`
OneEnemyTransfer(before_vel, after, entry) ==
    /\ after.pos = ExitOf(entry).pos
    /\ after.vel = SaidRotated(before_vel, EntryOf(entry), ExitOf(entry))
    /\ after.last_portal_time = ticks

\* what is said of one check of an actor whose rectangle was r: blue is the
\* entry when r overlaps blue, orange only when r does not overlap blue, and
\* the actor stays as it was when r overlaps neither
BlueFirst(r, transferred_from, unchanged) ==
    /\ colliderect(r, blue_portal.rect) => transferred_from["blue"]
    /\ (~colliderect(r, blue_portal.rect) /\ colliderect(r, orange_portal.rect)) =>
          transferred_from["orange"]
    /\ (~colliderect(r, blue_portal.rect) /\ ~colliderect(r, orange_portal.rect)) =>
          unchanged

\* C26: in one tick each actor is transferred at most once, as a single step:
\* the blue portal is tested first, so an actor overlapping both portals enters
\* blue and exits orange; orange is the entry only when the actor does not
\* overlap blue; the position is not tested again after the transfer.
C26_BlueFirstOnce ==
    (Checked /\ blue_portal # None /\ orange_portal # None) =>
        /\ BlueFirst(Player_rect(last.player),
                     [c \in {"blue", "orange"} |->
                         OneTransfer(last.player.vel, player, c, {25})],
                     player = last.player)
        /\ BlueFirst(PhysicsObject_rect(last.cube),
                     [c \in {"blue", "orange"} |->
                         OneTransfer(last.cube.vel, cube, c,
                                     {cube.size.x \div 2, cube.size.y \div 2})],
                     cube = last.cube)
        /\ ticks - last.enemy.last_portal_time >= portal_cooldown =>
              BlueFirst(last.enemy.rect,
                        [c \in {"blue", "orange"} |->
                            OneEnemyTransfer(last.enemy.vel, enemy, c)],
                        enemy = last.enemy)

\* player, body and enemy overlapping two distinct portals at one check, the
\* enemy past its cooldown and the actors moving
C26_Witness ==
    /\ Checked
    /\ blue_portal # None /\ orange_portal # None
    /\ blue_portal.rect # orange_portal.rect
    /\ colliderect(Player_rect(last.player), blue_portal.rect)
    /\ colliderect(Player_rect(last.player), orange_portal.rect)
    /\ colliderect(PhysicsObject_rect(last.cube), blue_portal.rect)
    /\ colliderect(PhysicsObject_rect(last.cube), orange_portal.rect)
    /\ colliderect(last.enemy.rect, blue_portal.rect)
    /\ colliderect(last.enemy.rect, orange_portal.rect)
    /\ ticks - last.enemy.last_portal_time >= portal_cooldown
    /\ last.player.vel.x # 0

\* C29: a transfer changes only the transferred actor's own state (position
\* and velocity, and for an enemy also its rectangle, last_portal_time, state
\* and confusion_timer): both portal slots, each portal's position,
\* orientation and angle, the obstacle set and every other actor are left
\* unchanged; an actor that overlaps no portal is left as it was.
C29_TransferFrame ==
    [][ /\ blue_portal' = blue_portal
        /\ orange_portal' = orange_portal
        /\ obstacles' = obstacles
        /\ player' = [player EXCEPT !.pos = player'.pos, !.vel = player'.vel]
        /\ cube' = [cube EXCEPT !.pos = cube'.pos, !.vel = cube'.vel]
        /\ enemy' = [enemy EXCEPT !.pos = enemy'.pos, !.vel = enemy'.vel,
                                  !.rect = enemy'.rect,
                                  !.last_portal_time = enemy'.last_portal_time,
                                  !.state = enemy'.state,
                                  !.confusion_timer = enemy'.confusion_timer]
        /\ ~OverlapsPortal(Player_rect(player)) => player' = player
        /\ ~OverlapsPortal(PhysicsObject_rect(cube)) => cube' = cube
        /\ ~OverlapsPortal(enemy.rect) => enemy' = enemy
      ]_vars

\* a check that transfers player, body and enemy between two distinct portals
C29_Witness ==
    /\ Checked
    /\ last.entry.player # "none"
    /\ last.entry.cube # "none"
    /\ last.entry.enemy # "none"
    /\ blue_portal.rect # orange_portal.rect
    /\ player # last.player /\ cube # last.cube /\ enemy # last.enemy

-----------------------------------------------------------------------------
(* An enemy updated frame after frame beside two portals *)

\* frames of the run
MaxFrames == 8

\* the time clock.tick() reports for a frame, in milliseconds
FrameTimes == {500, 1000}

\* the velocities the confused branch draws
RandomVels == { Vec(PxPerSec(-Enemy_speed), 0), Vec(0, 0), Vec(PxPerSec(Enemy_speed), 0) }

EnemyBlue == place_portal(Vec(410, 240), <<-1, 0>>, "blue")
EnemyOrange == place_portal(Vec(610, 240), <<-1, 0>>, "orange")

InitEnemy ==
    /\ game_state = "playing"
    /\ phase = "enemy"
    /\ obstacles = << Obstacle(Rect(750, 0, 50, 500), TRUE) >>
    /\ \E pos \in {Vec(450, 200), Vec(2000, 200)} :
          player = [pos |-> pos, vel |-> Vec(0, 0)]
    /\ blue_portal = EnemyBlue
    /\ orange_portal \in {EnemyOrange, None}
    /\ cube = [pos |-> Vec(300, 350), vel |-> Vec(0, 0), size |-> Vec(40, 40)]
    /\ enemy = Enemy_init(Vec(300, 200), <<Vec(300, 200), Vec(700, 200)>>)
    /\ current_level = 0
    /\ ticks = 0
    /\ last = [op |-> "init", n |-> 0, since |-> 0]

\* one frame: the clock advances by dt and the enemy is updated with it
EnemyFrame ==
    \E dt \in FrameTimes, random_vel \in RandomVels :
        LET now == ticks + dt
            decided == Enemy_state_machine(enemy, dt, player.pos)
            acted == Enemy_act(decided, player.pos, now, random_vel)
            at_check == Enemy_before_check(enemy, dt, player.pos, obstacles, now, random_vel)
            entry == Enemy_entry(at_check, blue_portal, orange_portal, now)
        IN  /\ last.n < MaxFrames
            /\ Enemy_act_exact(decided, player.pos)
            /\ displacement_exact(acted.vel.x, dt) /\ displacement_exact(acted.vel.y, dt)
            /\ bounce_exact(acted.vel.x) /\ bounce_exact(acted.vel.y)
            /\ ticks' = now
            /\ enemy' = Enemy_update(enemy, dt, player.pos, obstacles,
                                     blue_portal, orange_portal, now, random_vel)
            /\ last' = [op |-> "Enemy.update", n |-> last.n + 1, dt |-> dt,
                        before |-> enemy, acted_as |-> decided.state,
                        at_check |-> at_check, entry |-> entry,
                        since |-> IF entry # "none" THEN 0 ELSE last.since + dt]
            /\ UNCHANGED <<current_level, game_state, phase, obstacles, player, blue_portal,
                           orange_portal, cube>>

NextEnemy == EnemyFrame

SpecEnemy == InitEnemy /\ [][NextEnemy]_vars

Updated == last.op = "Enemy.update"

\* C9: for an enemy, any two consecutive transfers are at least 1.0 second
\* apart: while the current time minus the time of its last transfer is below
\* the cooldown, check_portal_transition transfers nothing, even if the enemy
\* overlaps a portal and both slots are live.
C9_EnemyCooldown ==
    Updated =>
      /\ (ticks - last.before.last_portal_time < 1000) =>
            /\ enemy.last_portal_time = last.before.last_portal_time
            /\ enemy.pos = last.at_check.pos
            /\ enemy.vel = last.at_check.vel
      /\ (enemy.last_portal_time # last.before.last_portal_time) =>
            enemy.last_portal_time - last.before.last_portal_time >= 1000

\* an update within a second of a transfer, with both slots live and the
\* enemy's rectangle over a portal at the check
C9_Witness ==
    /\ Updated
    /\ last.before.last_portal_time > 0
    /\ ticks - last.before.last_portal_time < 1000
    /\ blue_portal # None /\ orange_portal # None
    /\ \/ colliderect(last.at_check.rect, blue_portal.rect)
       \/ colliderect(last.at_check.rect, orange_portal.rect)

PlayerInRange(e) ==
    (player.pos.x - e.pos.x) * (player.pos.x - e.pos.x)
      + (player.pos.y - e.pos.y) * (player.pos.y - e.pos.y) < 300 * 300

\* C10: after every transfer an enemy is 'confused' with confusion_timer = 3.0;
\* on later updates it stays 'confused' (never 'chase' or 'patrol', whatever
\* the player's distance) until the dt elapsed since the transfer reaches 3
\* seconds, and on the update where the timer reaches 0 or below it returns
\* to 'patrol'.
C10_ConfusedForThreeSeconds ==
    /\ (Updated /\ last.entry # "none") =>
          (enemy.state = "confused" /\ enemy.confusion_timer = 3000)
    /\ enemy.state = "confused" =>
          (last.since < 3000 /\ enemy.confusion_timer = 3000 - last.since)
    /\ (Updated /\ last.before.state = "confused" /\ last.entry = "none") =>
          /\ last.since < 3000 => (enemy.state = "confused" /\ last.acted_as = "confused")
          /\ last.since >= 3000 => (enemy.state = "patrol" /\ last.acted_as = "patrol")

\* the update that ends the confusion, three seconds after the transfer, with
\* the player within the detection range
C10_Witness ==
    /\ Updated
    /\ last.before.state = "confused"
    /\ last.entry = "none"
    /\ last.since >= 3000
    /\ enemy.state = "patrol"
    /\ PlayerInRange(last.before)

-----------------------------------------------------------------------------
(* Player.update and PhysicsObject.update (player.py, objects.py) *)

Player_speed == 300
jump_strength == 600
Player_gravity == 1500
PhysicsObject_gravity == 1000

\* friction = 0.8 and restitution = 0.3, in thousandths and in tenths
friction_thousandths == 800
restitution_tenths == 3

\* gravity * dt, in velocity units
fall(gravity, dt) == (PxPerSec(gravity) * dt) \div 1000

\* the player rectangle is taken once, before the loop over the obstacles
RECURSIVE Player_handle_collisions(_, _, _, _, _)
Player_handle_collisions(p, player_rect, obs, direction, i) ==
    IF i > Len(obs) THEN p
    ELSE
      LET o == obs[i].rect
          q == IF ~colliderect(player_rect, o) THEN p
               ELSE IF direction = "horizontal"
               THEN [p EXCEPT !.pos.x = IF p.vel.x > 0 THEN o.x - Player_size.x
                                        ELSE IF p.vel.x < 0 THEN o.x + o.w
                                        ELSE @,
                              !.vel.x = 0]
               ELSE IF p.vel.y > 0
               THEN [p EXCEPT !.pos.y = o.y - Player_size.y,
                              !.on_ground = TRUE,
                              !.vel.y = 0]
               ELSE IF p.vel.y < 0
               THEN [p EXCEPT !.pos.y = o.y + o.h, !.vel.y = 0]
               ELSE p
      IN  Player_handle_collisions(q, player_rect, obs, direction, i + 1)

\* Player.update up to the portal check; keys is what get_pressed() reports
Player_move(p, keys, dt, obs) ==
    LET vel_x == IF keys.right THEN PxPerSec(Player_speed)
                 ELSE IF keys.left THEN -PxPerSec(Player_speed)
                 ELSE 0
        jumps == keys.jump /\ p.on_ground
        vel_y == (IF jumps THEN -PxPerSec(jump_strength) ELSE p.vel.y)
                   + fall(Player_gravity, dt)
        p1 == [p EXCEPT !.vel = Vec(vel_x, vel_y),
                        !.on_ground = IF jumps THEN FALSE ELSE @,
                        !.pos.x = @ + displacement(vel_x, dt)]
        p2 == Player_handle_collisions(p1, Player_rect(p1), obs, "horizontal", 1)
        p3 == [p2 EXCEPT !.pos.y = @ + displacement(vel_y, dt), !.on_ground = FALSE]
    IN  Player_handle_collisions(p3, Player_rect(p3), obs, "vertical", 1)

\* the frames whose player arithmetic is exact on the integers
Player_move_exact(p, keys, dt) ==
    LET jumps == keys.jump /\ p.on_ground
        vel_y == (IF jumps THEN -PxPerSec(jump_strength) ELSE p.vel.y)
                   + fall(Player_gravity, dt)
    IN  /\ displacement_exact(PxPerSec(Player_speed), dt)
        /\ displacement_exact(vel_y, dt)

Player_update_EmptySlots(p, keys, dt, obs, blue, orange) ==
    Player_check_portal_transition(Player_move(p, keys, dt, obs), None, None)

Player_update(p, keys, dt, obs, blue, orange) ==
    Player_check_portal_transition(Player_move(p, keys, dt, obs), blue, orange)

\* self.vel.x *= (1 - self.friction * dt)
rub(v, dt) == (v * (1000 * 1000 - friction_thousandths * dt)) \div (1000 * 1000)

rub_exact(v, dt) == (v * (1000 * 1000 - friction_thousandths * dt)) % (1000 * 1000) = 0

\* -vel * self.restitution
rebound(v) == -((v * restitution_tenths) \div 10)

rebound_exact(v) == (v * restitution_tenths) % 10 = 0

\* self.rect is refreshed before the loop and after it, not inside it
RECURSIVE PhysicsObject_handle_collisions(_, _, _, _, _)
PhysicsObject_handle_collisions(o, rect, obs, direction, i) ==
    IF i > Len(obs) THEN o
    ELSE
      LET w == obs[i].rect
          q == IF ~colliderect(rect, w) THEN o
               ELSE IF direction = "horizontal"
               THEN [o EXCEPT !.pos.x = IF o.vel.x > 0 THEN w.x - o.size.x
                                        ELSE IF o.vel.x < 0 THEN w.x + w.w
                                        ELSE @,
                              !.vel.x = rebound(@)]
               ELSE IF o.vel.y > 0
               THEN [o EXCEPT !.pos.y = w.y - o.size.y,
                              !.on_ground = TRUE,
                              !.vel.y = 0]
               ELSE IF o.vel.y < 0
               THEN [o EXCEPT !.pos.y = w.y + w.h, !.vel.y = rebound(@)]
               ELSE o
      IN  PhysicsObject_handle_collisions(q, rect, obs, direction, i + 1)

PhysicsObject_move(o, dt, obs) ==
    LET vel_y == o.vel.y + fall(PhysicsObject_gravity, dt)
        vel_x == IF o.on_ground THEN rub(o.vel.x, dt) ELSE o.vel.x
        o1 == [o EXCEPT !.vel = Vec(vel_x, vel_y),
                        !.pos.x = @ + displacement(vel_x, dt)]
        o2 == PhysicsObject_handle_collisions(o1, PhysicsObject_rect(o1), obs,
                                              "horizontal", 1)
        o3 == [o2 EXCEPT !.pos.y = @ + displacement(vel_y, dt), !.on_ground = FALSE]
    IN  PhysicsObject_handle_collisions(o3, PhysicsObject_rect(o3), obs, "vertical", 1)

PhysicsObject_move_exact(o, dt) ==
    LET vel_y == o.vel.y + fall(PhysicsObject_gravity, dt)
        vel_x == IF o.on_ground THEN rub(o.vel.x, dt) ELSE o.vel.x
    IN  /\ o.on_ground => rub_exact(o.vel.x, dt)
        /\ displacement_exact(vel_x, dt) /\ displacement_exact(vel_y, dt)
        /\ rebound_exact(vel_x) /\ rebound_exact(vel_y)

PhysicsObject_update(o, dt, obs, blue, orange) ==
    PhysicsObject_check_portal_transition(PhysicsObject_move(o, dt, obs), blue, orange)

-----------------------------------------------------------------------------
(* The game: main loop, Game.handle_event and Game.update on level 0 *)
(* (main.py, game.py).  The camera only converts the mouse position to the  *)
(* world point of a click, which is drawn here directly; switches are read  *)
(* by nothing the player, the cube or the portals do, and level 0 has no    *)
(* doors and no enemies.                                                    *)

\* frames of a run, and events handled before one frame's update
MaxGameFrames == 2
MaxEvents == 1

\* the world points of a click: on the player's position, and max_distance
\* away from it to the left, to the right and below
ClickTargets(origin) ==
    { origin, Vec(origin.x - max_distance, origin.y),
      Vec(origin.x + max_distance, origin.y), Vec(origin.x, origin.y + max_distance) }

\* pygame.key.get_pressed(), as far as Player.update reads it
KeyStates ==
    { [left |-> FALSE, right |-> FALSE, jump |-> FALSE],
      [left |-> TRUE, right |-> FALSE, jump |-> FALSE],
      [left |-> TRUE, right |-> TRUE, jump |-> TRUE] }

\* the time clock.tick(60) reports for a frame, in milliseconds
GameFrameTimes == {100}

\* Level.is_complete() (level.py:99-103), so Game.update never changes level
is_complete == FALSE

\* Game.update's count of levels
NumLevels == 3

\* Player.reset: position, velocity and on_ground; no other field is assigned
Player_reset(p, start_pos) ==
    [p EXCEPT !.pos = start_pos, !.vel = Vec(0, 0), !.on_ground = FALSE]

\* Game.update(dt), with the answer of level.is_complete() as `complete`:
\* the game's level number, state, level contents, player and body after it
Game_update(complete, level_number, state, obs, p, c, blue, orange, keys, dt) ==
    IF state # "playing"
    THEN [current_level |-> level_number, game_state |-> state, obstacles |-> obs,
          player |-> p, cube |-> c]
    ELSE LET updated == Player_update(p, keys, dt, obs, blue, orange)
             body == IF c = None THEN None
                     ELSE PhysicsObject_update(c, dt, obs, blue, orange)
             next_level == level_number + 1
         IN  IF ~complete
             THEN [current_level |-> level_number, game_state |-> state,
                   obstacles |-> obs, player |-> updated, cube |-> body]
             ELSE IF next_level >= NumLevels
             THEN [current_level |-> next_level, game_state |-> "game_over",
                   obstacles |-> obs, player |-> updated, cube |-> body]
             ELSE [current_level |-> next_level, game_state |-> state,
                   obstacles |-> Level_obstacles(next_level),
                   player |-> Player_reset(updated, Level_player_start_pos(next_level)),
                   cube |-> Level_physics_object(next_level)]

Init ==
    /\ game_state = "playing"
    /\ phase = "events"
    /\ obstacles = Level0
    /\ player = [pos |-> PlayerStart, vel |-> Vec(0, 0), on_ground |-> FALSE]
    /\ blue_portal = None
    /\ orange_portal = None
    /\ cube = [pos |-> Vec(300, 350), vel |-> Vec(0, 0), size |-> Vec(40, 40),
               on_ground |-> FALSE]
    /\ enemy = None
    /\ current_level = 0
    /\ ticks = 0
    /\ last = [op |-> "init", n |-> 0, events |-> 0]

Player_handle_event_WrongChannel(button, self_pos, target_pos, obs, blue, orange) ==
    IF button = 1
    THEN LET created == create_portal(self_pos, target_pos, "blue", obs)
         IN  [blue |-> blue, orange |-> created, created |-> created]
    ELSE IF button = 3
    THEN LET created == create_portal(self_pos, target_pos, "orange", obs)
         IN  [blue |-> created, orange |-> orange, created |-> created]
    ELSE [blue |-> blue, orange |-> orange, created |-> None]

\* Player.handle_event for a MOUSEBUTTONDOWN event aimed at the world point
\* target_pos: the two slots afterwards, and what create_portal returned
Player_handle_event(button, self_pos, target_pos, obs, blue, orange) ==
    IF button = 1
    THEN LET created == create_portal(self_pos, target_pos, "blue", obs)
         IN  [blue |-> created, orange |-> orange, created |-> created]
    ELSE IF button = 3
    THEN LET created == create_portal(self_pos, target_pos, "orange", obs)
         IN  [blue |-> blue, orange |-> created, created |-> created]
    ELSE [blue |-> blue, orange |-> orange, created |-> None]

\* a MOUSEBUTTONDOWN event: Game.handle_event, then Player.handle_event
MouseButtonDown ==
    \E button \in {1, 2, 3}, target_pos \in ClickTargets(player.pos) :
        LET playing == game_state = "playing"
            handled == Player_handle_event(button, player.pos, target_pos, obstacles,
                                           blue_portal, orange_portal)
        IN  /\ phase = "events"
            /\ last.events < MaxEvents
            /\ blue_portal' = IF playing THEN handled.blue ELSE blue_portal
            /\ orange_portal' = IF playing THEN handled.orange ELSE orange_portal
            /\ last' = [op |-> "MOUSEBUTTONDOWN", n |-> last.n, events |-> last.events + 1,
                        button |-> button, passed_on |-> playing,
                        rejected |-> (button # 2 /\ handled.created = None),
                        created |-> IF playing THEN handled.created ELSE None,
                        slot_before |-> IF button = 1 THEN blue_portal
                                        ELSE IF button = 3 THEN orange_portal
                                        ELSE None,
                        other_before |-> IF button = 1 THEN orange_portal
                                         ELSE IF button = 3 THEN blue_portal
                                         ELSE None]
            /\ UNCHANGED <<current_level, game_state, phase, obstacles, player, cube, enemy, ticks>>

Game_handle_keydown_EscapeStays(state, key) ==
    IF state = "menu" THEN (IF key = "K_ESCAPE" THEN "menu" ELSE "playing")
    ELSE IF key = "K_ESCAPE" THEN "menu"
    ELSE state

\* Game.handle_event on a KEYDOWN event: the game_state after it
Game_handle_keydown(state, key) ==
    IF state = "menu" THEN "playing"
    ELSE IF key = "K_ESCAPE" THEN "menu"
    ELSE state

\* a KEYDOWN event: any key leaves the menu, Escape enters it
KeyDown ==
    \E key \in {"K_ESCAPE", "K_a"} :
        /\ phase = "events"
        /\ last.events < MaxEvents
        /\ game_state' = Game_handle_keydown(game_state, key)
        /\ last' = [op |-> "KEYDOWN", n |-> last.n, events |-> last.events + 1,
                    key |-> key, state_before |-> game_state]
        /\ UNCHANGED <<current_level, phase, obstacles, player, blue_portal, orange_portal, cube,
                       enemy, ticks>>

\* a QUIT event: pygame.quit() and sys.exit()
Quit ==
    /\ phase = "events"
    /\ last.events < MaxEvents
    /\ phase' = "exited"
    /\ last' = [op |-> "QUIT", n |-> last.n, events |-> last.events + 1]
    /\ UNCHANGED <<current_level, game_state, obstacles, player, blue_portal, orange_portal, cube,
                   enemy, ticks>>

\* the step before was a click passed on to the player whose placement was
\* accepted
Placed == last.op = "MOUSEBUTTONDOWN" /\ last.passed_on /\ last.button # 2 /\ ~last.rejected

\* the rest of a loop iteration once the event queue is empty: clock.tick and
\* Game.update (the player, then the level's physics objects)
Frame ==
    \E dt \in GameFrameTimes, keys \in KeyStates :
        LET moved == Player_move(player, keys, dt, obstacles)
            cube_moved == PhysicsObject_move(cube, dt, obstacles)
            playing == game_state = "playing"
            after == Game_update(is_complete, current_level, game_state, obstacles,
                                 player, cube, blue_portal, orange_portal, keys, dt)
        IN  /\ phase = "events"
            /\ last.n < MaxGameFrames
            /\ playing => /\ Player_move_exact(player, keys, dt)
                          /\ PhysicsObject_move_exact(cube, dt)
                          /\ Boostable(moved.vel) /\ Boostable(cube_moved.vel)
            /\ ~playing => (~keys.left /\ ~keys.right /\ ~keys.jump)
            /\ ticks' = ticks + dt
            /\ game_state' = after.game_state
            /\ current_level' = after.current_level
            /\ obstacles' = after.obstacles
            /\ player' = after.player
            /\ cube' = after.cube
            /\ last' = [op |-> "update", n |-> last.n + 1, events |-> 0, dt |-> dt,
                        after_placement |-> Placed,
                        player_entry |-> IF playing
                                         THEN Player_entry(moved, blue_portal, orange_portal)
                                         ELSE "none",
                        cube_entry |-> IF playing
                                       THEN PhysicsObject_entry(cube_moved, blue_portal,
                                                                orange_portal)
                                       ELSE "none"]
            /\ UNCHANGED <<phase, blue_portal, orange_portal, enemy>>

Next == MouseButtonDown \/ KeyDown \/ Quit \/ Frame

Spec == Init /\ [][Next]_vars

-----------------------------------------------------------------------------
(* Level change: the frames of Game.update in which the level is complete.
   Level.is_complete() is a placeholder that answers False; here the answer
   True is taken as given, which is the only way the branch of Game.update
   that replaces the level can run. *)

Idle == [left |-> FALSE, right |-> FALSE, jump |-> FALSE]

\* the portals a click of the player standing at the start of level 0 creates
LevelPortals(color) ==
    { create_portal(PlayerStart, target, color, Level0) :
          target \in ClickTargets(PlayerStart) }

\* level 0 with the portals placed, before or after one frame
InitLevel ==
    /\ game_state = "playing"
    /\ current_level = 0
    /\ phase = "level"
    /\ obstacles = Level_obstacles(0)
    /\ blue_portal \in LevelPortals("blue")
    /\ orange_portal \in LevelPortals("orange")
    /\ \E frames \in 0..1, keys \in KeyStates :
          LET start == [pos |-> Level_player_start_pos(0), vel |-> Vec(0, 0),
                        on_ground |-> FALSE]
              after == Game_update(is_complete, 0, "playing", Level0, start,
                                   Level_physics_object(0), blue_portal,
                                   orange_portal, keys, 100)
          IN  /\ frames = 0 => keys = Idle
              /\ Player_move_exact(start, keys, 100)
              /\ player = IF frames = 1 THEN after.player ELSE start
              /\ cube = IF frames = 1 THEN after.cube ELSE Level_physics_object(0)
    /\ enemy = None
    /\ ticks = 0
    /\ last = [op |-> "init", n |-> 0]

\* one call of Game.update in which level.is_complete() answers True
LevelComplete ==
    \E dt \in GameFrameTimes, keys \in KeyStates :
        LET moved == Player_move(player, keys, dt, obstacles)
            after == Game_update(TRUE, current_level, game_state, obstacles,
                                 player, cube, blue_portal, orange_portal, keys, dt)
        IN  /\ phase = "level"
            /\ game_state = "playing"
            /\ Player_move_exact(player, keys, dt)
            /\ Boostable(moved.vel)
            /\ cube # None =>
                   /\ PhysicsObject_move_exact(cube, dt)
                   /\ Boostable(PhysicsObject_move(cube, dt, obstacles).vel)
            /\ ticks' = ticks + dt
            /\ game_state' = after.game_state
            /\ current_level' = after.current_level
            /\ obstacles' = after.obstacles
            /\ player' = after.player
            /\ cube' = after.cube
            /\ last' = [op |-> "level_complete", n |-> last.n + 1,
                        unloaded |-> after.current_level < NumLevels,
                        blue_before |-> blue_portal, orange_before |-> orange_portal]
            /\ UNCHANGED <<phase, blue_portal, orange_portal, enemy>>

NextLevel == LevelComplete

SpecLevel == InitLevel /\ [][NextLevel]_vars

C1_RejectedPlacementKeepsPortal ==
    (last.op = "MOUSEBUTTONDOWN" /\ last.passed_on /\ last.rejected) =>
        /\ last.button = 1 => blue_portal = last.slot_before
        /\ last.button = 3 => orange_portal = last.slot_before

\* C11: each channel holds at most one portal (its slot is empty or holds one
\* portal of the channel's colour); an accepted placement puts the new portal
\* in its channel's slot at once, in place of the previous one, and leaves the
\* other channel's slot as it was.
C11_OnePortalPerChannel ==
    /\ blue_portal # None => blue_portal.color = "blue"
    /\ orange_portal # None => orange_portal.color = "orange"
    /\ (Placed /\ last.button = 1) =>
          (blue_portal = last.created /\ blue_portal # None
             /\ orange_portal = last.other_before)
    /\ (Placed /\ last.button = 3) =>
          (orange_portal = last.created /\ orange_portal # None
             /\ blue_portal = last.other_before)

\* an accepted placement in a channel that held another portal, while the
\* other channel holds one too
C11_Witness ==
    /\ Placed
    /\ last.slot_before # None
    /\ last.slot_before # last.created
    /\ last.other_before # None

\* C17: in every frame, the placements triggered by the frame's events have
\* updated their channels before the frame's transfer checks read the slots,
\* and no placement happens between two checks of the same frame: a step that
\* changes a slot is an event step that updates no actor, and the update
\* step checks the player and then the cube against the slots as the events
\* left them, leaving the slots alone.
C17_PlacementBeforeChecks ==
    [][ /\ (blue_portal' # blue_portal \/ orange_portal' # orange_portal) =>
              (last'.op = "MOUSEBUTTONDOWN" /\ player' = player /\ cube' = cube)
        /\ (last'.op = "update" /\ last'.n # last.n /\ game_state = "playing") =>
              /\ \E keys \in KeyStates :
                    player' = Player_check_portal_transition(
                                  Player_move(player, keys, last'.dt, obstacles),
                                  blue_portal, orange_portal)
              /\ cube' = PhysicsObject_check_portal_transition(
                             PhysicsObject_move(cube, last'.dt, obstacles),
                             blue_portal, orange_portal)
              /\ blue_portal' = blue_portal /\ orange_portal' = orange_portal
      ]_vars

\* a frame whose last event placed a portal and whose update then took the
\* player through the pair
C17_Witness ==
    /\ last.op = "update"
    /\ last.after_placement
    /\ last.player_entry # "none"

-----------------------------------------------------------------------------
(* The game loop entered in the menu: the player has run left for two frames
   to the wall of level 0, and the events of the third iteration have placed
   portals on the wall and the floor beside it and opened the menu *)

HoldLeft == [left |-> TRUE, right |-> FALSE, jump |-> FALSE]

\* the game after `frames` calls of Game.update(0.1) with the left key held
RECURSIVE AfterRunLeft(_)
AfterRunLeft(frames) ==
    IF frames = 0
    THEN [current_level |-> 0, game_state |-> "playing",
          obstacles |-> Level_obstacles(0),
          player |-> [pos |-> Level_player_start_pos(0), vel |-> Vec(0, 0),
                      on_ground |-> FALSE],
          cube |-> Level_physics_object(0)]
    ELSE LET g == AfterRunLeft(frames - 1)
         IN  Game_update(is_complete, g.current_level, g.game_state, g.obstacles,
                         g.player, g.cube, None, None, HoldLeft, 100)

AtTheWall == AfterRunLeft(2)

InitMenu ==
    /\ game_state = "menu"
    /\ current_level = AtTheWall.current_level
    /\ phase = "events"
    /\ obstacles = AtTheWall.obstacles
    /\ player = AtTheWall.player
    /\ cube = AtTheWall.cube
    /\ blue_portal = create_portal(player.pos, Vec(player.pos.x - max_distance, player.pos.y),
                                   "blue", obstacles)
    /\ orange_portal \in { None,
                            create_portal(player.pos,
                                          Vec(player.pos.x, player.pos.y + max_distance),
                                          "orange", obstacles) }
    /\ enemy = None
    /\ ticks = 200
    /\ last = [op |-> "init", n |-> 0, events |-> 0]

SpecMenu == InitMenu /\ [][Next]_vars

\* C30: while game_state is "menu", mouse-button events place or remove no
\* portal and Game.update moves no actor and performs no transfer; from "menu"
\* any KEYDOWN event (Escape included) leads to "playing", and from "playing"
\* only a KEYDOWN of Escape leads to "menu".
C30_MenuFreezes ==
    [][ /\ (game_state = "menu" /\ last'.op = "MOUSEBUTTONDOWN") =>
              (blue_portal' = blue_portal /\ orange_portal' = orange_portal)
        /\ (game_state = "menu" /\ last'.op = "update") =>
              (player' = player /\ cube' = cube /\ enemy' = enemy
                 /\ game_state' = "menu")
        /\ (game_state = "menu" /\ last'.op = "KEYDOWN") => game_state' = "playing"
        /\ (game_state = "menu" /\ game_state' # "menu") =>
              (last'.op = "KEYDOWN" /\ game_state' = "playing")
        /\ (game_state = "playing" /\ game_state' = "menu") =>
              (last'.op = "KEYDOWN" /\ last'.key = "K_ESCAPE")
        /\ (game_state = "playing" /\ last'.op = "KEYDOWN" /\ last'.key = "K_ESCAPE") =>
              game_state' = "menu"
      ]_vars

\* a call of Game.update in the menu while both portals are live and the
\* player overlaps both of them
C30_Witness ==
    /\ game_state = "menu"
    /\ last.op = "update"
    /\ blue_portal # None /\ orange_portal # None
    /\ colliderect(Player_rect(player), blue_portal.rect)
    /\ colliderect(Player_rect(player), orange_portal.rect)

====
